---- MODULE Spec2Model ----
(***************************************************************************)
(* A model of the default router of go-micro (router/default.go), its      *)
(* route identity (router/route.go) and the routing table it drives.       *)
(*                                                                         *)
(* The module holds these specifications over one set of variables:        *)
(*   Spec                    concurrent calls of Close and Advertise, the  *)
(*                           two locks, the advert subscribers and their   *)
(*                           readers, publishAdvert, advertiseEvents and   *)
(*                           its table-watch supervisor;                   *)
(*   FairShutdownSpec        the same with readers that never receive,     *)
(*                           under fair scheduling;                        *)
(*   AnnounceSpec /          the same on a router with a gateway route,    *)
(*   FairAnnounceSpec        with readers that keep receiving;             *)
(*   RegistrySpec /          calls of Close and Init, the registry-watch   *)
(*   FairRegistrySpec        supervisors and the helpers of their watchers;*)
(*   CoalesceSpec            the two cases of the advertiseEvents loop     *)
(*                           run on bounded event streams;                 *)
(*   RestartSpec             calls of Close, Advertise and Init with the   *)
(*                           goroutines of Spec;                           *)
(*   PrewarmStartSpec        RegistrySpec on routers that may prewarm;     *)
(*   ProcessSpec /           Process applied to bounded adverts, and to    *)
(*   ProcessAbortSpec        adverts with events of unknown type;          *)
(*   HashSpec                Route.Hash applied to pairs of routes;        *)
(*   EtcdSpec                Register and Deregister of the etcd registry  *)
(*                           adapter (registry/etcd/etcd.go) on one store, *)
(*                           with lease expiry and adapter restarts;       *)
(*   QuerySpec               GetService and ListServices of the adapter;   *)
(*   WatchSpec               etcdWatcher.Next on bounded watch responses;  *)
(*   PrewarmSpec             start with Prewarm on a store the adapter     *)
(*                           has filled;                                   *)
(*   ManageSpec              manageRoutes applied to registry results.     *)
(***************************************************************************)
EXTENDS Integers, Sequences, FiniteSets, TLC

VARIABLES
    \* ---- router struct (default.go:24-36) and its table
    running,        \* r.running
    exit,           \* r.exit: 0 is the nil channel, n > 0 the n-th channel made by start
    exitClosed,     \* the exit channels that have been closed
    exitMade,       \* how many exit channels start has made so far
    eventChan,      \* r.eventChan: 0 is nil, n > 0 the n-th channel made by Advertise
    eventClosed,    \* the event channels that have been closed
    eventMade,      \* how many event channels Advertise has made so far
    subscribers,    \* r.subscribers: the set of subscriber channel ids in the map
    chanBuf,        \* subscriber channel id -> the adverts buffered in it
    chanClosed,     \* the subscriber channels that have been closed
    chanMade,       \* how many subscriber channels Advertise has made so far
    options,        \* r.options: [Id, Gateway, Advertise, Prewarm]
    table,          \* r.table: the set of routes stored in the routing table
    mu,             \* holder of the router lock r.RWMutex ("none" when free)
    subReaders,     \* publishers holding r.sub.RLock
    panicked,       \* a goroutine has hit a runtime panic (the process is gone)
    \* ---- API callers
    pc,             \* caller -> position
    op,             \* caller -> the API method it is executing or executed last
    ret,            \* caller -> what its last completed call returned
    calls,          \* number of API calls made so far
    \* ---- publishAdvert goroutines
    pubPc,          \* publisher -> position
    pubAdv,         \* publisher -> the advert it publishes
    pubTodo,        \* publisher -> subscribers its range loop has not visited yet
    \* ---- goroutines of one first Advertise call, indexed by the event channel it made
    coPc,           \* advertiseEvents goroutine -> position
    coExit,         \* ... -> the r.exit value its select evaluated
    coEvent,        \* ... -> the r.eventChan value its select evaluated
    adverts,        \* ... -> its pending map: route hash -> event
    coW,            \* the variable w shared by advertiseEvents and its supervisor: 0 is nil
    tsPc,           \* table-watch supervisor -> position
    tsExit,         \* ... -> the r.exit value the select of watchTable evaluated
    tsEvent,        \* ... -> the r.eventChan value the select of watchTable evaluated
    tsHeld,         \* ... -> the table event watchTable is about to send
    \* ---- goroutines of one successful start, indexed by the exit channel it made
    rsPc,           \* registry-watch supervisor -> position
    rsW,            \* ... -> its variable w: 0 is nil
    \* ---- watchers, each with the helper goroutine watchRegistry / watchTable starts
    watchers,       \* sequence of [kind, owner, first, stopped, hPc, hExit, hDone]
    \* ---- the advertiseEvents loop run on its own (CoalesceSpec)
    cCount,         \* the number of events received so far
    cSince,         \* the events received since the last tick, in order
    cPrev,          \* the events received between the last two ticks, in order
    cLast,          \* the events of the advert published at the last tick
    cTicked,        \* the last step of the loop was a tick
    cPubs,          \* the adverts the ticks have given to publishAdvert, in order
    \* ---- the last call of Process (ProcessSpec)
    pAdvert,        \* the events of the advert given to Process
    pBefore,        \* the table when Process was called
    pSorted,        \* the local slice events after sort.Slice
    pApplied,       \* the events manageRoute was called for, in order
    pErr,           \* what Process returned
    \* ---- the etcd store and one adapter (EtcdSpec, PrewarmSpec)
    store,          \* key -> [Value, Lease] for the keys present
    leaseLive,      \* the leases granted and not expired
    leaseMade,      \* how many leases the store has granted so far
    register,       \* e.register: domain -> (name+id -> hash of the node)
    leases,         \* e.leases: domain -> (name+id -> lease id)
    eOp,            \* the last call made on the adapter, with its arguments
    eRet,           \* what it returned, and the store calls it made
    eCalls,         \* number of calls and store events so far
    \* ---- one etcdWatcher (WatchSpec)
    wSent,          \* the watch responses the store has sent on ew.w, in order
    wPos,           \* how many of them Next has received
    wOut,           \* the results the calls of Next have returned, in order
    wErr,           \* the error of the last call of Next
    wClosed,        \* ew.w has been closed (the context of the watch is cancelled)
    wWatch,         \* the last call of Watch: its options, its error, the path watched
    \* ---- the last call of manageRoutes (ManageSpec)
    mArgs,          \* its arguments: service, action, network
    mBefore,        \* the table when it was called
    mErr,           \* what it returned
    \* ---- Route.Hash applied to two routes (HashSpec)
    hashed          \* the two routes and the byte strings hashed for them

routerVars == <<running, exit, exitClosed, exitMade, eventChan, eventClosed,
                eventMade, subscribers, chanBuf, chanClosed, chanMade, mu,
                subReaders, panicked>>
callerVars == <<pc, op, ret, calls>>
pubVars == <<pubPc, pubAdv, pubTodo>>
coVars == <<coPc, coExit, coEvent, coW>>
tsVars == <<tsPc, tsExit, tsEvent, tsHeld>>
rsVars == <<rsPc, rsW>>
harnessC == <<cCount, cSince, cPrev, cLast, cTicked, cPubs>>
harnessP == <<pAdvert, pBefore, pSorted, pApplied, pErr>>
harnessE == <<store, leaseLive, leaseMade, register, leases, eOp, eRet, eCalls>>
harnessW == <<wSent, wPos, wOut, wErr, wClosed, wWatch>>
harnessM == <<mArgs, mBefore, mErr>>
harnessH == <<hashed>>
\* the variables of the registry-side specifications
harnessR == <<harnessE, harnessW, harnessM, harnessH>>

\* everything but options, table and adverts, which the harnesses use too
lifecycleVars == <<routerVars, callerVars, pubVars, coVars, tsVars, rsVars, watchers>>

vars == <<lifecycleVars, options, table, adverts, harnessC, harnessP, harnessR>>

----------------------------------------------------------------------------
(* Bounds of the model.                                                    *)

\* API calls (Close, Init, Advertise) made after construction
MaxCalls == 3
\* capacity of a subscriber channel in the model (128 in the source)
ChanCap == 1
\* publishAdvert goroutines started by ticks of the coalescer
MaxTickPubs == 1
\* watchers opened by one supervisor after the one it was started with
MaxReopen == 1
\* events the advertiseEvents loop receives in CoalesceSpec
MaxEvents == 3
\* events in an advert given to Process
MaxAdvertLen == 2
MaxAbortLen == 3
\* calls that change the adapter or the store, lease expiries included
MaxEtcdCalls == 3
\* the watch responses the store sends, and the events of one response
MaxResponses == 3
MaxWatchEvents == 2

----------------------------------------------------------------------------
(* Data model: routes, events, adverts (route.go, spec section 3).         *)

Nil == "nil"

\* router.AdvertiseAll .. AdvertiseNone
Strategies == {"all", "best", "local", "none"}

\* router.Create, router.Delete, router.Update as printed by EventType.String
EventTypes == {"create", "delete", "update"}

DefaultLink == "local"
DefaultLocalMetric == 1

\* options.Id of the router under study, and a peer
SelfId == "R1"
PeerId == "R2"

Route(service, address, gateway, network, router, link, metric) ==
    [Service |-> service, Version |-> "", Address |-> address,
     Gateway |-> gateway, Network |-> network, Router |-> router,
     Link |-> link, Metric |-> metric]

\* Route.Hash: FNV-64 of the concatenated identity fields. The model keeps the
\* hashed byte string itself (FNV is taken to be injective on the strings used).
Hash(r) ==
    r.Service \o r.Version \o r.Address \o r.Gateway \o r.Network \o r.Router \o r.Link

Event(type, ts, route) == [Type |-> type, Timestamp |-> ts, Route |-> route]

\* the nil *Event a receive from a closed event channel yields
NilEvent == Event("nil", 0, Route("", "", "", "", "", "", 0))

----------------------------------------------------------------------------
(* The routing table (spec section 4.3): a set of routes keyed by          *)
(* (Service, Hash).  Every operation returns the new table and an error.   *)

SameKey(x, r) == x.Service = r.Service /\ Hash(x) = Hash(r)

TableHas(t, r) == \E x \in t : SameKey(x, r)

TableCreate(t, r) ==
    IF TableHas(t, r)
    THEN [table |-> t, err |-> "ErrDuplicateRoute"]
    ELSE [table |-> t \cup {r}, err |-> Nil]

TableDelete(t, r) ==
    IF ~TableHas(t, r)
    THEN [table |-> t, err |-> "ErrRouteNotFound"]
    ELSE [table |-> {x \in t : ~SameKey(x, r)}, err |-> Nil]

TableUpdate(t, r) ==
    [table |-> {x \in t : ~SameKey(x, r)} \cup {r}, err |-> Nil]

\* Table.Query with only a strategy given
TableQuery(t, strategy) ==
    CASE strategy = "all" -> t
      [] strategy = "local" -> {x \in t : x.Link = "local"}
      [] strategy = "best" ->
            {x \in t : \A y \in t : y.Service = x.Service => x.Metric <= y.Metric}
      [] OTHER -> {}

----------------------------------------------------------------------------
(* router.manageRoute and router.Process (default.go:101-120, 605-641).    *)

\* what manageRoute makes of the table's answer: an error other than the
\* tolerated one is returned wrapped in msg, anything else is success
manageResult_NoTolerance(res, tolerated, msg) ==
    IF res.err # Nil
    THEN [table |-> res.table, err |-> msg]
    ELSE [table |-> res.table, err |-> Nil]

manageResult(res, tolerated, msg) ==
    IF res.err # Nil /\ res.err # tolerated
    THEN [table |-> res.table, err |-> msg]
    ELSE [table |-> res.table, err |-> Nil]

manageRoute(t, route, action) ==
    CASE action = "create" ->
            manageResult(TableCreate(t, route), "ErrDuplicateRoute",
                         "failed adding route")
      [] action = "delete" ->
            manageResult(TableDelete(t, route), "ErrRouteNotFound",
                         "failed deleting route")
      [] action = "update" ->
            manageResult(TableUpdate(t, route), Nil, "failed updating route")
      [] OTHER -> [table |-> t, err |-> "unknown action"]

\* sort.Slice(events, Timestamp.Before): the result is some permutation of the
\* events in which no event comes before one with a smaller Timestamp; the
\* order of events with equal Timestamp is whatever the sort produces.
IndexOrders(n) ==
    {p \in [1..n -> 1..n] : \A i, j \in 1..n : i # j => p[i] # p[j]}

SortOrders(evs) ==
    {p \in IndexOrders(Len(evs)) :
        \A i, j \in 1..Len(evs) :
            i < j => evs[p[i]].Timestamp <= evs[p[j]].Timestamp}

\* lines 631-637: the error of manageRoute makes Process return
\* "failed applying action"
processResult(res) ==
    [table |-> res.table,
     err |-> IF res.err # Nil THEN "failed applying action" ELSE Nil,
     applied |-> TRUE]

\* one iteration of the loop of Process over the sorted events (lines 619-638):
\* [table, err, applied], applied telling whether manageRoute was called
ProcessEvent_NoSkip(t, event, id) ==
    processResult(manageRoute(t, event.Route, event.Type))

ProcessEvent(t, event, id) ==
    IF event.Route.Router = id
    THEN [table |-> t, err |-> Nil, applied |-> FALSE]
    ELSE processResult(manageRoute(t, event.Route, event.Type))

----------------------------------------------------------------------------
(* The two cases of the select of advertiseEvents that touch the pending   *)
(* map adverts (default.go:383-447).  A map is a function on its keys.     *)

EmptyMap == <<>>

MapPut(m, k, v) == [x \in DOMAIN m \cup {k} |-> IF x = k THEN v ELSE m[x]]

MapRemove(m, ks) == [x \in DOMAIN m \ ks |-> m[x]]

\* case e := <-r.eventChan (lines 415-447): the pending map afterwards
advertsStore_NoFilter(m, e, strategy) ==
    IF e = NilEvent THEN m
    ELSE LET hash == Hash(e.Route) IN
         IF hash \notin DOMAIN m THEN MapPut(m, hash, e) ELSE m

advertsStore(m, e, strategy) ==
    IF e = NilEvent THEN m
    ELSE IF strategy = "none" THEN m
    ELSE IF strategy = "local" /\ e.Route.Link # "local" THEN m
    ELSE LET hash == Hash(e.Route) IN
         IF hash \notin DOMAIN m
         THEN MapPut(m, hash, e)
         ELSE \* lines 445-447: "ev = e" assigns the local variable ev only,
              \* the entry stored in the map stays as it is
              LET ev == IF m[hash].Type # e.Type THEN e ELSE m[hash] IN m

\* case <-ticker.C (lines 383-414): the keys the loop copies and deletes
advertsFlushKeys_KeepAll(m, strategy) == {}

advertsFlushKeys(m, strategy) ==
    IF strategy = "none" THEN {}
    ELSE {h \in DOMAIN m : ~(strategy = "local" /\ m[h].Route.Link # "local")}

\* the orders in which the range over the map may visit a set of keys
KeyOrders(ks) ==
    {s \in [1..Cardinality(ks) -> ks] :
        \A i, j \in 1..Cardinality(ks) : i # j => s[i] # s[j]}

----------------------------------------------------------------------------
(* The registry as the router sees it, and the routes start builds.        *)

\* what ListServices / GetService of the registry hold: name, domain, node addresses
RegistryServices == <<[Name |-> "svc", Domain |-> "inf", Nodes |-> <<"n1">>]>>

\* router.manageRoutes (lines 124-147): the action applied to every node of a
\* service, stopping at the first error
RECURSIVE manageNodes(_, _, _, _, _, _)
manageNodesFrom(res, name, nodes, action, network, id) ==
    IF res.err # Nil THEN res
    ELSE manageNodes(res.table, name, nodes, action, network, id)

manageNodes(t, name, nodes, action, network, id) ==
    IF nodes = <<>> THEN [table |-> t, err |-> Nil]
    ELSE manageNodesFrom(
             manageRoute(t, Route(name, Head(nodes), "", network, id,
                                  DefaultLink, DefaultLocalMetric), action),
             name, Tail(nodes), action, network, id)

\* strings.ToLower (line 126) on the action strings used
toLower(str) ==
    CASE str = "Create" -> "create"
      [] str = "DELETE" -> "delete"
      [] OTHER -> str

manageRoutes(t, service, action, network, id) ==
    manageNodes(t, service.Name, service.Nodes, toLower(action), network, id)

\* router.manageRegistryRoutes (lines 151-181) over the services the registry lists
RECURSIVE manageServices(_, _, _, _)
manageServicesFrom(res, services, action, id) ==
    IF res.err # Nil THEN res
    ELSE manageServices(res.table, services, action, id)

manageServices(t, services, action, id) ==
    IF services = <<>> THEN [table |-> t, err |-> Nil]
    ELSE manageServicesFrom(
             manageRoutes(t, Head(services), action, Head(services).Domain, id),
             Tail(services), action, id)

manageRegistryRoutes(t, listOk, action, id) ==
    IF ~listOk THEN [table |-> t, err |-> "failed listing services"]
    ELSE manageServices(t, RegistryServices, action, id)

\* the default gateway route of start (lines 485-493)
GatewayRoute(opts) ==
    Route("*", "*", opts.Gateway, "*", opts.Id, DefaultLink, DefaultLocalMetric)

\* start, lines 495-508: the exit channel, the registry watcher and the launch
\* of the supervisor; gw is the table once the gateway route is in
startWatch(r, gw, watchOk) ==
    [running |-> watchOk, exit |-> r.exitMade + 1, exitMade |-> r.exitMade + 1,
     table |-> gw.table,
     err |-> IF watchOk THEN Nil ELSE "failed creating registry watcher",
     spawned |-> watchOk]

\* start, lines 491-493: the error of table.Create makes start return
startAfterGateway(r, gw, watchOk) ==
    IF gw.err # Nil
    THEN [running |-> r.running, exit |-> r.exit, exitMade |-> r.exitMade,
          table |-> gw.table, err |-> "failed adding default gateway route",
          spawned |-> FALSE]
    ELSE startWatch(r, gw, watchOk)

\* start, lines 474-490: warm is the table once the registry routes are in
startGateway(r, warm, watchOk) ==
    IF warm.err # Nil
    THEN [running |-> r.running, exit |-> r.exit, exitMade |-> r.exitMade,
          table |-> warm.table, err |-> "failed adding registry routes",
          spawned |-> FALSE]
    ELSE IF r.options.Gateway # ""
    THEN startAfterGateway(r, TableCreate(warm.table, GatewayRoute(r.options)),
                           watchOk)
    ELSE startWatch(r, warm, watchOk)

\* router.start (lines 469-508) up to the launch of the supervisor, on the
\* fields r = [running, exit, exitMade, table, options]; listOk and watchOk are
\* the outcomes of Registry.ListServices and Registry.Watch.  spawned tells
\* whether the registry-watch supervisor was launched.
start(r, listOk, watchOk) ==
    IF r.running
    THEN [running |-> r.running, exit |-> r.exit, exitMade |-> r.exitMade,
          table |-> r.table, err |-> Nil, spawned |-> FALSE]
    ELSE IF r.options.Prewarm
    THEN startGateway(r, manageRegistryRoutes(r.table, listOk, "create",
                                              r.options.Id), watchOk)
    ELSE startGateway(r, [table |-> r.table, err |-> Nil], watchOk)

\* router.flushRouteEvents (lines 644-675): one event per route of the table
\* query under the configured strategy
flushRouteEvents_AnyStrategy(t, evType, strategy) ==
    {Event(evType, 0, route) : route \in t}

flushRouteEvents(t, evType, strategy) ==
    {Event(evType, 0, route) : route \in TableQuery(t, strategy)}

----------------------------------------------------------------------------
(* Processes of the lifecycle specifications.                              *)

Callers == {"c1", "c2"}
ExitIds == 1..(MaxCalls + 1)
EventIds == 1..MaxCalls
ChanIds == 1..MaxCalls
PubIds == 1..(MaxCalls + MaxTickPubs)

WatcherIds == ({"reg"} \X ExitIds \X (0..MaxReopen))
                  \cup ({"tbl"} \X EventIds \X (0..MaxReopen))

\* registry.WildcardDomain
WildcardDomain == "*"

\* domain: the Domain option the watcher was opened with ("" when none was
\* given)
NoWatcher == [open |-> FALSE, stopped |-> FALSE, hPc |-> "none", hExit |-> 0,
              hDone |-> FALSE, domain |-> ""]

\* a watcher just returned by Registry.Watch or Table.Watch
NewWatcher == [NoWatcher EXCEPT !.open = TRUE]

\* a watcher returned by Registry.Watch given the Domain option domain
RegistryWatcher(domain) == [NewWatcher EXCEPT !.domain = domain]

Opened(kind, owner) == {n \in 0..MaxReopen : watchers[<<kind, owner, n>>].open}

NoAdvert == [Type |-> "none", Events |-> {}]

NoRet == [err |-> Nil, chan |-> 0]

\* the options newRouter and Init are given in the model
GatewayChoices == {"", "gw"}

PrewarmChoices == {FALSE}

\* the advertising strategy the lifecycle specifications run with
LifecycleStrategies == {"all"}

\* the variables of the harnesses before any event or call
HarnessIdle ==
    /\ cCount = 0 /\ cSince = <<>> /\ cPrev = <<>> /\ cLast = {}
    /\ cTicked = FALSE /\ cPubs = <<>>
    /\ pAdvert = <<>> /\ pBefore = table /\ pSorted = <<>>
    /\ pApplied = <<>> /\ pErr = Nil
    /\ store = EmptyMap /\ leaseLive = {} /\ leaseMade = 0
    /\ register = EmptyMap /\ leases = EmptyMap
    /\ eOp = [name |-> "none"] /\ eRet = [err |-> Nil] /\ eCalls = 0
    /\ wSent = <<>> /\ wPos = 0 /\ wOut = <<>> /\ wErr = Nil /\ wClosed = FALSE
    /\ wWatch = [called |-> FALSE, domain |-> "", service |-> "", err |-> Nil,
                 made |-> FALSE, path |-> <<>>]
    /\ mArgs = [action |-> "none"] /\ mBefore = table /\ mErr = Nil
    /\ hashed = <<>>

\* the router once newRouter's call of start has answered res
ConstructedWith(opts, res) ==
    /\ options = opts
    /\ running = res.running
    /\ exit = res.exit
    /\ exitMade = res.exitMade
    /\ table = res.table
    /\ exitClosed = {}
    /\ eventChan = 0 /\ eventClosed = {} /\ eventMade = 0
    /\ subscribers = {}
    /\ chanBuf = [ch \in ChanIds |-> <<>>]
    /\ chanClosed = {} /\ chanMade = 0
    /\ mu = "none" /\ subReaders = {} /\ panicked = FALSE
    /\ pc = [c \in Callers |-> "idle"]
    /\ op = [c \in Callers |-> "none"]
    /\ ret = [c \in Callers |-> NoRet]
    /\ calls = 0
    /\ pubPc = [p \in PubIds |-> "none"]
    /\ pubAdv = [p \in PubIds |-> NoAdvert]
    /\ pubTodo = [p \in PubIds |-> <<>>]
    /\ coPc = [k \in EventIds |-> "none"]
    /\ coExit = [k \in EventIds |-> 0]
    /\ coEvent = [k \in EventIds |-> 0]
    /\ adverts = [k \in EventIds |-> EmptyMap]
    /\ coW = [k \in EventIds |-> -1]
    /\ tsPc = [k \in EventIds |-> "none"]
    /\ tsExit = [k \in EventIds |-> 0]
    /\ tsEvent = [k \in EventIds |-> 0]
    /\ tsHeld = [k \in EventIds |-> NilEvent]
    /\ rsPc = [g \in ExitIds |->
                  IF res.spawned /\ g = res.exit THEN "top" ELSE "none"]
    /\ rsW = [g \in ExitIds |->
                  IF res.spawned /\ g = res.exit THEN 0 ELSE -1]
    /\ watchers = [w \in WatcherIds |->
                      IF res.spawned /\ w = <<"reg", res.exit, 0>>
                      THEN RegistryWatcher(WildcardDomain) ELSE NoWatcher]

\* newRouter (lines 39-61): the zero router with its options, then start,
\* whose error newRouter drops
Constructed(opts, listOk, watchOk) ==
    ConstructedWith(opts, start([running |-> FALSE, exit |-> 0, exitMade |-> 0,
                                 table |-> {}, options |-> opts],
                                listOk, watchOk))

Init ==
    /\ \E gw \in GatewayChoices, strategy \in LifecycleStrategies,
          prewarm \in PrewarmChoices, watchOk \in BOOLEAN :
          Constructed([Id |-> SelfId, Gateway |-> gw, Advertise |-> strategy,
                       Prewarm |-> prewarm], TRUE, watchOk)
    /\ HarnessIdle

----------------------------------------------------------------------------
(* API callers: Close, Init and Advertise.  A runtime panic ends the        *)
(* process: no goroutine takes a step once panicked holds.                 *)

\* The callers are interchangeable goroutines: a call is made by c1 when it is
\* idle, and by c2 only while c1 is inside a call.
MayCall(c) ==
    /\ ~panicked /\ pc[c] = "idle" /\ calls < MaxCalls
    /\ c = "c1" \/ pc["c1"] # "idle"

\* a caller enters Close, Init (which begins with Close) or Advertise
CallClose(c) ==
    /\ MayCall(c)
    /\ pc' = [pc EXCEPT ![c] = "close"]
    /\ op' = [op EXCEPT ![c] = "Close"]
    /\ calls' = calls + 1
    /\ UNCHANGED <<routerVars, ret, pubVars, coVars, tsVars, rsVars, watchers,
                   options, table, adverts, harnessC, harnessP, harnessR>>

CallInit(c) ==
    /\ MayCall(c)
    /\ pc' = [pc EXCEPT ![c] = "close"]
    /\ op' = [op EXCEPT ![c] = "Init"]
    /\ calls' = calls + 1
    /\ UNCHANGED <<routerVars, ret, pubVars, coVars, tsVars, rsVars, watchers,
                   options, table, adverts, harnessC, harnessP, harnessR>>

CallAdvertise(c) ==
    /\ MayCall(c)
    /\ pc' = [pc EXCEPT ![c] = "adv"]
    /\ op' = [op EXCEPT ![c] = "Advertise"]
    /\ calls' = calls + 1
    /\ UNCHANGED <<routerVars, ret, pubVars, coVars, tsVars, rsVars, watchers,
                   options, table, adverts, harnessC, harnessP, harnessR>>

\* where a caller goes when Close returns: Init goes on to r.Lock (line 70)
AfterClose(c) == IF op[c] = "Init" THEN "init_lock" ELSE "idle"

\* the senders of watchTable that drain (lines 458-466) can receive from: those
\* blocked in their select on the current event channel.  A sender whose select
\* evaluated an exit channel that is closed by now is not among them: the close
\* has woken it up for its exit case.
Drainable ==
    {k \in EventIds : /\ tsPc[k] = "send"
                      /\ eventChan # 0 /\ tsEvent[k] = eventChan
                      /\ tsExit[k] \notin exitClosed \cup {exit}}

\* Close, lines 689-699: r.Lock, the select on r.exit, close(r.exit), drain
CloseLock_NoExitCheck(c) ==
    /\ ~panicked /\ pc[c] = "close" /\ mu = "none"
    /\ exitClosed' = exitClosed \cup {exit}
    /\ mu' = c
    /\ pc' = [pc EXCEPT ![c] = "close_subs"]
    /\ UNCHANGED <<ret, panicked, tsPc>>
    /\ UNCHANGED <<running, exit, exitMade, eventChan, eventClosed, eventMade,
                   subscribers, chanBuf, chanClosed, chanMade, subReaders,
                   op, calls, pubVars, coVars, tsExit, tsEvent, tsHeld, rsVars,
                   watchers, options, table, adverts, harnessC, harnessP, harnessR>>

CloseLock(c) ==
    /\ ~panicked /\ pc[c] = "close" /\ mu = "none"
    /\ IF exit # 0 /\ exit \in exitClosed
       THEN \* case <-r.exit: return nil
            /\ pc' = [pc EXCEPT ![c] = AfterClose(c)]
            /\ ret' = [ret EXCEPT ![c] = NoRet]
            /\ UNCHANGED <<exitClosed, mu, panicked, tsPc>>
       ELSE IF exit = 0
       THEN \* default: close(r.exit) of a nil channel panics
            /\ panicked' = TRUE
            /\ pc' = [pc EXCEPT ![c] = "panic"]
            /\ UNCHANGED <<exitClosed, mu, ret, tsPc>>
       ELSE \* default: close(r.exit), then drain
            /\ exitClosed' = exitClosed \cup {exit}
            /\ \E drained \in SUBSET Drainable :
                  tsPc' = [k \in EventIds |->
                              IF k \in drained THEN "next" ELSE tsPc[k]]
            /\ mu' = c
            /\ pc' = [pc EXCEPT ![c] = "close_subs"]
            /\ UNCHANGED <<ret, panicked>>
    /\ UNCHANGED <<running, exit, exitMade, eventChan, eventClosed, eventMade,
                   subscribers, chanBuf, chanClosed, chanMade, subReaders,
                   op, calls, pubVars, coVars, tsExit, tsEvent, tsHeld, rsVars,
                   watchers, options, table, adverts, harnessC, harnessP, harnessR>>

\* Close, lines 701-719: r.sub.Lock, close and delete every subscriber,
\* r.sub.Unlock, close and nil the event channel, running = false, r.Unlock
CloseFinish_KeepsSubscribers(c) ==
    /\ ~panicked /\ pc[c] = "close_subs" /\ subReaders = {}
    /\ eventClosed' = IF eventChan # 0 THEN eventClosed \cup {eventChan}
                      ELSE eventClosed
    /\ eventChan' = 0
    /\ running' = FALSE
    /\ mu' = "none"
    /\ pc' = [pc EXCEPT ![c] = AfterClose(c)]
    /\ ret' = [ret EXCEPT ![c] = NoRet]
    /\ UNCHANGED <<exit, exitClosed, exitMade, eventMade, chanBuf, chanMade,
                   subReaders, panicked, op, calls, pubVars, coVars, tsVars,
                   rsVars, watchers, options, table, adverts, harnessC,
                   harnessP, harnessR, chanClosed, subscribers>>

\* Close that closes the subscribers without r.sub.Lock
CloseFinish_NoSubLock(c) ==
    /\ ~panicked /\ pc[c] = "close_subs"
    /\ chanClosed' = chanClosed \cup subscribers
    /\ subscribers' = {}
    /\ eventClosed' = IF eventChan # 0 THEN eventClosed \cup {eventChan}
                      ELSE eventClosed
    /\ eventChan' = 0
    /\ running' = FALSE
    /\ mu' = "none"
    /\ pc' = [pc EXCEPT ![c] = AfterClose(c)]
    /\ ret' = [ret EXCEPT ![c] = NoRet]
    /\ UNCHANGED <<exit, exitClosed, exitMade, eventMade, chanBuf, chanMade,
                   subReaders, panicked, op, calls, pubVars, coVars, tsVars,
                   rsVars, watchers, options, table, adverts, harnessC,
                   harnessP, harnessR>>

CloseFinish(c) ==
    /\ ~panicked /\ pc[c] = "close_subs" /\ subReaders = {}
    /\ chanClosed' = chanClosed \cup subscribers
    /\ subscribers' = {}
    /\ eventClosed' = IF eventChan # 0 THEN eventClosed \cup {eventChan}
                      ELSE eventClosed
    /\ eventChan' = 0
    /\ running' = FALSE
    /\ mu' = "none"
    /\ pc' = [pc EXCEPT ![c] = AfterClose(c)]
    /\ ret' = [ret EXCEPT ![c] = NoRet]
    /\ UNCHANGED <<exit, exitClosed, exitMade, eventMade, chanBuf, chanMade,
                   subReaders, panicked, op, calls, pubVars, coVars, tsVars,
                   rsVars, watchers, options, table, adverts, harnessC,
                   harnessP, harnessR>>

\* Init, lines 72-82, once start has answered res: the supervisor start
\* launched (lines 509-544), r.Unlock and the return of start's error
InitFinish(c, res) ==
    /\ running' = res.running
    /\ exit' = res.exit
    /\ exitMade' = res.exitMade
    /\ table' = res.table
    /\ ret' = [ret EXCEPT ![c] = [err |-> res.err, chan |-> 0]]
    /\ IF res.spawned
       THEN /\ rsPc' = [rsPc EXCEPT ![res.exit] = "top"]
            /\ rsW' = [rsW EXCEPT ![res.exit] = 0]
            /\ watchers' = [watchers EXCEPT
                               ![<<"reg", res.exit, 0>>] =
                                   RegistryWatcher(WildcardDomain)]
       ELSE UNCHANGED <<rsPc, rsW, watchers>>
    /\ pc' = [pc EXCEPT ![c] = "idle"]

\* the outcomes of Registry.ListServices in start: it is called only when
\* the router prewarms (line 472)
ListOutcomes(opts) == IF opts.Prewarm THEN BOOLEAN ELSE {TRUE}

\* Init, lines 70-82, called without options: r.Lock, start, r.Unlock.
\* listOk and watchOk are the outcomes of Registry.ListServices and
\* Registry.Watch.
InitStart(c) ==
    /\ ~panicked /\ pc[c] = "init_lock" /\ mu = "none"
    /\ \E listOk \in ListOutcomes(options), watchOk \in BOOLEAN :
          InitFinish(c, start([running |-> running, exit |-> exit,
                               exitMade |-> exitMade, table |-> table,
                               options |-> options], listOk, watchOk))
    /\ UNCHANGED <<exitClosed, eventChan, eventClosed, eventMade, subscribers,
                   chanBuf, chanClosed, chanMade, mu, subReaders, panicked,
                   op, calls, pubVars, coVars, tsVars, options, adverts,
                   harnessC, harnessP, harnessR>>

\* Advertise, lines 553-558: r.Lock and the running check
AdvertiseLock_NoRunningCheck(c) ==
    /\ ~panicked /\ pc[c] = "adv" /\ mu = "none"
    /\ mu' = c
    /\ pc' = [pc EXCEPT ![c] = "adv_sub"]
    /\ UNCHANGED ret
    /\ UNCHANGED <<running, exit, exitClosed, exitMade, eventChan, eventClosed,
                   eventMade, subscribers, chanBuf, chanClosed, chanMade,
                   subReaders, panicked, op, calls, pubVars, coVars, tsVars,
                   rsVars, watchers, options, table, adverts, harnessC,
                   harnessP, harnessR>>

AdvertiseLock(c) ==
    /\ ~panicked /\ pc[c] = "adv" /\ mu = "none"
    /\ IF ~running
       THEN /\ ret' = [ret EXCEPT ![c] = [err |-> "not running", chan |-> 0]]
            /\ pc' = [pc EXCEPT ![c] = "idle"]
            /\ UNCHANGED mu
       ELSE /\ mu' = c
            /\ pc' = [pc EXCEPT ![c] = "adv_sub"]
            /\ UNCHANGED ret
    /\ UNCHANGED <<running, exit, exitClosed, exitMade, eventChan, eventClosed,
                   eventMade, subscribers, chanBuf, chanClosed, chanMade,
                   subReaders, panicked, op, calls, pubVars, coVars, tsVars,
                   rsVars, watchers, options, table, adverts, harnessC,
                   harnessP, harnessR>>

\* the publishAdvert goroutine a go statement starts next
NextPub == CHOOSE p \in PubIds :
              pubPc[p] = "none" /\ \A q \in PubIds : q < p => pubPc[q] # "none"

\* Advertise, lines 561-601: r.sub.Lock, then either a further subscriber or
\* the first one with the event channel, the Announce advert and the
\* advertiseEvents goroutine; both locks are released on return
AdvertiseBody(c) ==
    /\ ~panicked /\ pc[c] = "adv_sub" /\ subReaders = {}
    /\ LET ch == chanMade + 1 IN
       /\ chanMade' = ch
       /\ subscribers' = subscribers \cup {ch}
       /\ ret' = [ret EXCEPT ![c] = [err |-> Nil, chan |-> ch]]
       /\ IF eventChan # 0
          THEN UNCHANGED <<eventChan, eventMade, pubVars, coPc>>
          ELSE /\ eventChan' = eventMade + 1
               /\ eventMade' = eventMade + 1
               /\ pubPc' = [pubPc EXCEPT ![NextPub] = "rlock"]
               /\ pubAdv' = [pubAdv EXCEPT ![NextPub] =
                      [Type |-> "announce",
                       Events |-> flushRouteEvents(table, "create",
                                                   options.Advertise)]]
               /\ coPc' = [coPc EXCEPT ![eventMade + 1] = "start"]
               /\ UNCHANGED pubTodo
    /\ mu' = "none"
    /\ pc' = [pc EXCEPT ![c] = "idle"]
    /\ UNCHANGED <<running, exit, exitClosed, exitMade, eventClosed, chanBuf,
                   chanClosed, subReaders, panicked, op, calls, coExit,
                   coEvent, coW, tsVars, rsVars, watchers, options, table,
                   adverts, harnessC, harnessP, harnessR>>

----------------------------------------------------------------------------
(* publishAdvert (lines 303-323), one goroutine per go statement, and the  *)
(* readers of the subscriber channels.                                     *)

\* a caller holds or waits for r.sub.Lock: sync.RWMutex then admits no new reader
SubWriterPending == \E c \in Callers : pc[c] \in {"close_subs", "adv_sub"}

\* publishAdvert returns: the goroutine is gone and its slot is free again
PubReturn(p) ==
    /\ pubPc' = [pubPc EXCEPT ![p] = "none"]
    /\ pubAdv' = [pubAdv EXCEPT ![p] = NoAdvert]
    /\ pubTodo' = [pubTodo EXCEPT ![p] = <<>>]

\* r.sub.RLock and the start of the range over r.subscribers, whose order the
\* runtime picks; with no subscriber the loop is empty and the lock released
PubRLock(p) ==
    /\ ~panicked /\ pubPc[p] = "rlock" /\ ~SubWriterPending
    /\ IF subscribers = {}
       THEN /\ PubReturn(p)
            /\ UNCHANGED subReaders
       ELSE /\ \E order \in KeyOrders(subscribers) :
                  pubTodo' = [pubTodo EXCEPT ![p] = order]
            /\ subReaders' = subReaders \cup {p}
            /\ pubPc' = [pubPc EXCEPT ![p] = "send"]
            /\ UNCHANGED pubAdv
    /\ UNCHANGED <<running, exit, exitClosed, exitMade, eventChan, eventClosed,
                   eventMade, subscribers, chanBuf, chanClosed, chanMade, mu,
                   panicked, callerVars, coVars, tsVars, rsVars,
                   watchers, options, table, adverts, harnessC, harnessP, harnessR>>

\* case sub <- a (lines 313-315): the send, which needs room in the buffer (a
\* send on a closed channel panics); after the last subscriber r.sub.RUnlock
PubSend(p) ==
    /\ ~panicked /\ pubPc[p] = "send"
    /\ LET ch == Head(pubTodo[p]) IN
       IF ch \in chanClosed
       THEN /\ panicked' = TRUE
            /\ UNCHANGED <<chanBuf, pubVars, subReaders>>
       ELSE /\ Len(chanBuf[ch]) < ChanCap
            /\ chanBuf' = [chanBuf EXCEPT ![ch] = Append(@, pubAdv[p])]
            /\ IF Tail(pubTodo[p]) = <<>>
               THEN /\ subReaders' = subReaders \ {p}
                    /\ PubReturn(p)
               ELSE /\ pubTodo' = [pubTodo EXCEPT ![p] = Tail(@)]
                    /\ UNCHANGED <<subReaders, pubPc, pubAdv>>
            /\ UNCHANGED panicked
    /\ UNCHANGED <<running, exit, exitClosed, exitMade, eventChan, eventClosed,
                   eventMade, subscribers, chanClosed, chanMade, mu,
                   callerVars, coVars, tsVars, rsVars, watchers,
                   options, table, adverts, harnessC, harnessP, harnessR>>

\* case <-r.exit (lines 316-319): r.sub.RUnlock and return.  r.exit is read
\* while the read lock is held and a subscriber exists; start, which replaces
\* r.exit, runs only after a Close that waited for the read lock to be free.
PubExit(p) ==
    /\ ~panicked /\ pubPc[p] = "send" /\ exit \in exitClosed
    /\ subReaders' = subReaders \ {p}
    /\ PubReturn(p)
    /\ UNCHANGED <<running, exit, exitClosed, exitMade, eventChan, eventClosed,
                   eventMade, subscribers, chanBuf, chanClosed, chanMade, mu,
                   panicked, callerVars, coVars, tsVars, rsVars,
                   watchers, options, table, adverts, harnessC, harnessP, harnessR>>

\* the holder of a channel returned by Advertise receives one advert from it
Consume(ch) ==
    /\ ~panicked /\ ch \in 1..chanMade /\ chanBuf[ch] # <<>>
    /\ chanBuf' = [chanBuf EXCEPT ![ch] = Tail(@)]
    /\ UNCHANGED <<running, exit, exitClosed, exitMade, eventChan, eventClosed,
                   eventMade, subscribers, chanClosed, chanMade, mu, subReaders,
                   panicked, callerVars, pubVars, coVars, tsVars, rsVars,
                   watchers, options, table, adverts, harnessC, harnessP, harnessR>>

----------------------------------------------------------------------------
(* Watchers and the helper goroutine of watchRegistry (lines 217-226) and  *)
(* watchTable (lines 271-280): it stops the watcher once r.exit or the     *)
(* call's own exit channel is closed.                                      *)

StopWatcher(ws, w) == [ws EXCEPT ![w].stopped = TRUE]

\* the call of watchRegistry / watchTable on w returns: its deferred
\* close(exit) runs, then the supervisor stops the watcher (w.Stop(); w = nil)
ReturnFromWatch(ws, w) == [ws EXCEPT ![w].hDone = TRUE, ![w].stopped = TRUE]

\* the call of watchRegistry / watchTable on w begins: it starts the helper
SpawnHelper(ws, w) == [ws EXCEPT ![w].hPc = "eval"]

\* the helper reaches its select, which evaluates r.exit
HelperEval(w) ==
    /\ ~panicked /\ watchers[w].hPc = "eval"
    /\ watchers' = [watchers EXCEPT ![w].hPc = "wait", ![w].hExit = exit]
    /\ UNCHANGED <<routerVars, callerVars, pubVars, coVars, tsVars, rsVars,
                   options, table, adverts, harnessC, harnessP, harnessR>>

\* either channel of the select is closed: the deferred w.Stop() runs
HelperStop(w) ==
    /\ ~panicked /\ watchers[w].hPc = "wait"
    /\ watchers[w].hDone \/ watchers[w].hExit \in exitClosed
    /\ watchers' = [watchers EXCEPT ![w].hPc = "done", ![w].stopped = TRUE]
    /\ UNCHANGED <<routerVars, callerVars, pubVars, coVars, tsVars, rsVars,
                   options, table, adverts, harnessC, harnessP, harnessR>>

----------------------------------------------------------------------------
(* The goroutine Advertise starts (lines 587-598) and advertiseEvents      *)
(* (lines 330-455), indexed by the event channel the Advertise call made.  *)

\* the table events the table watcher delivers in the lifecycle specifications
TaskEvents ==
    {Event("create", 0, Route("svc", "n1", "", "inf", SelfId, DefaultLink,
                              DefaultLocalMetric))}

\* lines 588-592 and 332-379: the select on r.exit with a default case, which
\* evaluates and polls r.exit in one step; then the ticker, the table watcher w
\* and the launch of the table-watch supervisor
CoStart(k) ==
    /\ ~panicked /\ coPc[k] = "start"
    /\ IF exit \in exitClosed
       THEN /\ coPc' = [coPc EXCEPT ![k] = "done"]
            /\ UNCHANGED <<coW, tsPc, watchers>>
       ELSE /\ coPc' = [coPc EXCEPT ![k] = "eval"]
            /\ coW' = [coW EXCEPT ![k] = 0]
            /\ watchers' = [watchers EXCEPT ![<<"tbl", k, 0>>] = NewWatcher]
            /\ tsPc' = [tsPc EXCEPT ![k] = "top"]
    /\ UNCHANGED <<routerVars, callerVars, pubVars, coExit, coEvent, tsExit,
                   tsEvent, tsHeld, rsVars, options, table, adverts, harnessC,
                   harnessP, harnessR>>

\* line 382: the select evaluates r.eventChan and r.exit
CoEval(k) ==
    /\ ~panicked /\ coPc[k] = "eval"
    /\ coExit' = [coExit EXCEPT ![k] = exit]
    /\ coEvent' = [coEvent EXCEPT ![k] = eventChan]
    /\ coPc' = [coPc EXCEPT ![k] = "sel"]
    /\ UNCHANGED <<routerVars, callerVars, pubVars, coW, tsVars, rsVars,
                   watchers, options, table, adverts, harnessC, harnessP, harnessR>>

\* the publishAdvert goroutines started by ticks that have not returned yet
TickPubs == {p \in PubIds : pubAdv[p].Type = "update"}

\* case <-ticker.C (lines 383-414)
CoTick(k) ==
    /\ ~panicked /\ coPc[k] = "sel"
    /\ LET keys == advertsFlushKeys(adverts[k], options.Advertise) IN
       /\ adverts' = [adverts EXCEPT ![k] = MapRemove(@, keys)]
       /\ IF keys # {}
          THEN /\ Cardinality(TickPubs) < MaxTickPubs
               /\ pubPc' = [pubPc EXCEPT ![NextPub] = "rlock"]
               /\ pubAdv' = [pubAdv EXCEPT ![NextPub] =
                      [Type |-> "update",
                       Events |-> {adverts[k][h] : h \in keys}]]
          ELSE UNCHANGED <<pubPc, pubAdv>>
    /\ coPc' = [coPc EXCEPT ![k] = "eval"]
    /\ UNCHANGED <<routerVars, callerVars, pubTodo, coExit, coEvent, coW,
                   tsVars, rsVars, watchers, options, table, harnessC,
                   harnessP, harnessR>>

\* case e := <-r.eventChan (lines 415-447), the event coming from the send of
\* the watchTable call of supervisor s (line 294)
CoRecv(k, s) ==
    /\ ~panicked /\ coPc[k] = "sel" /\ tsPc[s] = "send"
    /\ coEvent[k] # 0 /\ coEvent[k] \notin eventClosed
    /\ tsEvent[s] = coEvent[k]
    /\ adverts' = [adverts EXCEPT ![k] =
                      advertsStore(@, tsHeld[s], options.Advertise)]
    /\ coPc' = [coPc EXCEPT ![k] = "eval"]
    /\ tsPc' = [tsPc EXCEPT ![s] = "next"]
    /\ UNCHANGED <<routerVars, callerVars, pubVars, coExit, coEvent, coW,
                   tsExit, tsEvent, tsHeld, rsVars, watchers, options, table,
                   harnessC, harnessP, harnessR>>

\* the same case on a closed channel: e is nil and the loop continues
CoRecvClosed(k) ==
    /\ ~panicked /\ coPc[k] = "sel" /\ coEvent[k] \in eventClosed
    /\ adverts' = [adverts EXCEPT ![k] = advertsStore(@, NilEvent, options.Advertise)]
    /\ coPc' = [coPc EXCEPT ![k] = "eval"]
    /\ UNCHANGED <<routerVars, callerVars, pubVars, coExit, coEvent, coW,
                   tsVars, rsVars, watchers, options, table, harnessC,
                   harnessP, harnessR>>

\* case <-r.exit (lines 448-452): w.Stop() unless w is nil, then the deferred
\* w.Stop() of line 343 on the watcher held when the defer statement ran.
\* The read of the shared variable w races with the supervisor's writes: it
\* yields the current value or one of the watchers w has held.
CoExit(k) ==
    /\ ~panicked /\ coPc[k] = "sel" /\ coExit[k] \in exitClosed
    /\ \E n \in {coW[k]} \cup Opened("tbl", k) :
          watchers' = IF n = -1
                      THEN StopWatcher(watchers, <<"tbl", k, 0>>)
                      ELSE StopWatcher(StopWatcher(watchers, <<"tbl", k, n>>),
                                       <<"tbl", k, 0>>)
    /\ coPc' = [coPc EXCEPT ![k] = "done"]
    /\ coExit' = [coExit EXCEPT ![k] = 0]
    /\ coEvent' = [coEvent EXCEPT ![k] = 0]
    /\ adverts' = [adverts EXCEPT ![k] = EmptyMap]
    /\ UNCHANGED <<routerVars, callerVars, pubVars, coW, tsVars, rsVars,
                   options, table, harnessC, harnessP, harnessR>>

----------------------------------------------------------------------------
(* The table-watch supervisor (lines 345-379) and watchTable (262-300).    *)

\* lines 349-365: the select on r.exit with a default case; a nil w is replaced
\* by a new table watcher; then watchTable starts its helper
TsTop(k) ==
    /\ ~panicked /\ tsPc[k] = "top"
    /\ IF exit \in exitClosed
       THEN /\ tsPc' = [tsPc EXCEPT ![k] = "done"]
            /\ tsExit' = [tsExit EXCEPT ![k] = 0]
            /\ tsEvent' = [tsEvent EXCEPT ![k] = 0]
            /\ tsHeld' = [tsHeld EXCEPT ![k] = NilEvent]
            /\ UNCHANGED <<coW, watchers>>
       ELSE /\ UNCHANGED <<tsExit, tsEvent, tsHeld>>
            /\ IF coW[k] = -1
               THEN LET n == Cardinality(Opened("tbl", k)) IN
                    /\ n <= MaxReopen
                    /\ coW' = [coW EXCEPT ![k] = n]
                    /\ watchers' = [watchers EXCEPT
                           ![<<"tbl", k, n>>] =
                               [NewWatcher EXCEPT !.hPc = "eval"]]
               ELSE /\ watchers' = SpawnHelper(watchers, <<"tbl", k, coW[k]>>)
                    /\ UNCHANGED coW
            /\ tsPc' = [tsPc EXCEPT ![k] = "next"]
    /\ UNCHANGED <<routerVars, callerVars, pubVars, coPc, coExit, coEvent,
                   rsVars, options, table, adverts, harnessC, harnessP, harnessR>>

\* w.Next() of line 283 returns a table event
TsNextEvent(k) ==
    /\ ~panicked /\ tsPc[k] = "next" /\ ~watchers[<<"tbl", k, coW[k]>>].stopped
    /\ \E e \in TaskEvents : tsHeld' = [tsHeld EXCEPT ![k] = e]
    /\ tsPc' = [tsPc EXCEPT ![k] = "eval"]
    /\ UNCHANGED <<routerVars, callerVars, pubVars, coVars, tsExit, tsEvent,
                   rsVars, watchers, options, table, adverts, harnessC,
                   harnessP, harnessR>>

\* w.Next() returns ErrWatcherStopped: watchTable returns, the supervisor
\* stops and forgets w (lines 372-376)
TsNextStopped(k) ==
    /\ ~panicked /\ tsPc[k] = "next" /\ watchers[<<"tbl", k, coW[k]>>].stopped
    /\ watchers' = ReturnFromWatch(watchers, <<"tbl", k, coW[k]>>)
    /\ coW' = [coW EXCEPT ![k] = -1]
    /\ tsPc' = [tsPc EXCEPT ![k] = "top"]
    /\ UNCHANGED <<routerVars, callerVars, pubVars, coPc, coExit, coEvent,
                   tsExit, tsEvent, tsHeld, rsVars, options, table, adverts,
                   harnessC, harnessP, harnessR>>

\* line 291: the select evaluates r.exit and r.eventChan
TsEval(k) ==
    /\ ~panicked /\ tsPc[k] = "eval"
    /\ tsExit' = [tsExit EXCEPT ![k] = exit]
    /\ tsEvent' = [tsEvent EXCEPT ![k] = eventChan]
    /\ tsPc' = [tsPc EXCEPT ![k] = "send"]
    /\ UNCHANGED <<routerVars, callerVars, pubVars, coVars, tsHeld, rsVars,
                   watchers, options, table, adverts, harnessC, harnessP, harnessR>>

\* case <-r.exit: return nil (lines 292-293), then lines 372-376
TsExit(k) ==
    /\ ~panicked /\ tsPc[k] = "send" /\ tsExit[k] \in exitClosed
    /\ watchers' = ReturnFromWatch(watchers, <<"tbl", k, coW[k]>>)
    /\ coW' = [coW EXCEPT ![k] = -1]
    /\ tsPc' = [tsPc EXCEPT ![k] = "top"]
    /\ UNCHANGED <<routerVars, callerVars, pubVars, coPc, coExit, coEvent,
                   tsExit, tsEvent, tsHeld, rsVars, options, table, adverts,
                   harnessC, harnessP, harnessR>>

\* case r.eventChan <- event on a channel Close has closed: the send panics
TsSendClosed(k) ==
    /\ ~panicked /\ tsPc[k] = "send" /\ tsEvent[k] \in eventClosed
    /\ panicked' = TRUE
    /\ UNCHANGED <<running, exit, exitClosed, exitMade, eventChan, eventClosed,
                   eventMade, subscribers, chanBuf, chanClosed, chanMade, mu,
                   subReaders, callerVars, pubVars, coVars, tsVars, rsVars,
                   watchers, options, table, adverts, harnessC, harnessP, harnessR>>

----------------------------------------------------------------------------
(* The registry-watch supervisor (lines 509-544) and watchRegistry         *)
(* (lines 210-258), indexed by the exit channel its start made.            *)

\* the actions of the registry events the registry watcher delivers
RegistryActions == {"create", "delete"}

\* lines 513-531: the select on r.exit with a default case; a nil w is replaced
\* by a new registry watcher unless Registry.Watch fails (then the loop sleeps
\* and continues); then watchRegistry starts its helper.  Registry.Watch is
\* called without an option at line 521.
RsTop(g) ==
    /\ ~panicked /\ rsPc[g] = "top"
    /\ IF exit \in exitClosed
       THEN /\ rsPc' = [rsPc EXCEPT ![g] = "done"]
            /\ watchers' = IF rsW[g] # -1
                           THEN StopWatcher(watchers, <<"reg", g, rsW[g]>>)
                           ELSE watchers
            /\ UNCHANGED rsW
       ELSE IF rsW[g] = -1
       THEN \E watchOk \in BOOLEAN :
               LET n == Cardinality(Opened("reg", g)) IN
               IF watchOk /\ n <= MaxReopen
               THEN /\ rsW' = [rsW EXCEPT ![g] = n]
                    /\ watchers' = [watchers EXCEPT
                           ![<<"reg", g, n>>] =
                               [RegistryWatcher("") EXCEPT !.hPc = "eval"]]
                    /\ rsPc' = [rsPc EXCEPT ![g] = "next"]
               ELSE UNCHANGED <<rsPc, rsW, watchers>>
       ELSE /\ watchers' = SpawnHelper(watchers, <<"reg", g, rsW[g]>>)
            /\ rsPc' = [rsPc EXCEPT ![g] = "next"]
            /\ UNCHANGED rsW
    /\ UNCHANGED <<routerVars, callerVars, pubVars, coVars, tsVars, options,
                   table, adverts, harnessC, harnessP, harnessR>>

\* w.Next() of line 229 returns a registry event, which manageRoutes applies
\* to the table (lines 240-254)
RsNextEvent(g) ==
    /\ ~panicked /\ rsPc[g] = "next" /\ ~watchers[<<"reg", g, rsW[g]>>].stopped
    /\ \E action \in RegistryActions, i \in 1..Len(RegistryServices) :
          LET srv == RegistryServices[i]
              res == manageRoutes(table, srv, action, srv.Domain, options.Id)
          IN  /\ res.err = Nil
              /\ table' = res.table
    /\ UNCHANGED <<lifecycleVars, options, adverts, harnessC, harnessP, harnessR>>

\* w.Next() returns an error because the watcher was stopped: watchRegistry
\* returns, the supervisor sleeps, stops and forgets w (lines 531-541)
RsNextStopped(g) ==
    /\ ~panicked /\ rsPc[g] = "next" /\ watchers[<<"reg", g, rsW[g]>>].stopped
    /\ watchers' = ReturnFromWatch(watchers, <<"reg", g, rsW[g]>>)
    /\ rsW' = [rsW EXCEPT ![g] = -1]
    /\ rsPc' = [rsPc EXCEPT ![g] = "top"]
    /\ UNCHANGED <<routerVars, callerVars, pubVars, coVars, tsVars, options,
                   table, adverts, harnessC, harnessP, harnessR>>

----------------------------------------------------------------------------
(* Spec: two goroutines calling Close and Advertise, the publishAdvert      *)
(* goroutines, the readers of the subscriber channels, advertiseEvents and *)
(* its table-watch supervisor.  The registry-watch supervisor stays in the *)
(* w.Next() it blocks in when the registry has no event, and the table     *)
(* watcher is stopped by advertiseEvents and the supervisor themselves.    *)

ApiInit == Init /\ options.Gateway = ""

ApiCallerNext ==
    \E c \in Callers :
        \/ CallClose(c)
        \/ CallAdvertise(c)
        \/ CloseLock(c)
        \/ CloseFinish(c)
        \/ AdvertiseLock(c)
        \/ AdvertiseBody(c)

PubNext ==
    \/ \E p \in PubIds : PubRLock(p) \/ PubSend(p) \/ PubExit(p)
    \/ \E ch \in ChanIds : Consume(ch)

CoNext ==
    \E k \in EventIds :
        \/ CoStart(k)
        \/ CoEval(k)
        \/ CoTick(k)
        \/ \E s \in EventIds : CoRecv(k, s)
        \/ CoRecvClosed(k)
        \/ CoExit(k)

TsNext ==
    \E k \in EventIds :
        \/ TsTop(k)
        \/ TsNextEvent(k)
        \/ TsNextStopped(k)
        \/ TsEval(k)
        \/ TsExit(k)
        \/ TsSendClosed(k)

Next ==
    \/ ApiCallerNext
    \/ PubNext
    \/ CoNext
    \/ TsNext

Spec == ApiInit /\ [][Next]_vars

----------------------------------------------------------------------------
(* ShutdownSpec: as Spec, with readers that never receive from the         *)
(* subscriber channels.                                                    *)

ShutdownNext ==
    \/ ApiCallerNext
    \/ \E p \in PubIds : PubRLock(p) \/ PubSend(p) \/ PubExit(p)
    \/ CoNext
    \/ TsNext

ShutdownSpec == ApiInit /\ [][ShutdownNext]_vars

\* The scheduler runs every goroutine that can take a step, a mutex is handed
\* to a waiting goroutine, and a select picks each of its ready cases with
\* positive probability.  Nothing makes a new API call happen, the ticker
\* fire or the table change.
ShutdownFairness ==
    /\ \A c \in Callers :
          WF_vars(CloseLock(c) \/ CloseFinish(c) \/ AdvertiseLock(c)
                      \/ AdvertiseBody(c))
    /\ \A p \in PubIds :
          WF_vars(PubRLock(p) \/ PubSend(p)) /\ SF_vars(PubExit(p))
    /\ \A k \in EventIds :
          /\ WF_vars(CoStart(k) \/ CoEval(k)) /\ SF_vars(CoExit(k))
          /\ WF_vars(TsTop(k) \/ TsNextStopped(k) \/ TsEval(k))
          /\ SF_vars(TsExit(k))

FairShutdownSpec == ShutdownSpec /\ ShutdownFairness

----------------------------------------------------------------------------
(* AnnounceSpec: as Spec, on a router that has a gateway, so that its      *)
(* table holds a route when Advertise is called, and that advertises all   *)
(* routes or none; FairAnnounceSpec adds fair scheduling and holders of    *)
(* the channels that keep receiving.                                       *)

AnnounceStrategies == {"all", "none"}

AnnounceInit ==
    /\ \E strategy \in AnnounceStrategies, watchOk \in BOOLEAN :
          Constructed([Id |-> SelfId, Gateway |-> "gw", Advertise |-> strategy,
                       Prewarm |-> FALSE], TRUE, watchOk)
    /\ HarnessIdle

AnnounceSpec == AnnounceInit /\ [][Next]_vars

\* The scheduler runs every caller and every publishAdvert goroutine that can
\* take a step, every holder of a channel Advertise returned receives what is
\* buffered, and the sender of the Announce advert, blocked on a full channel,
\* is served when room is made (the runtime queues the senders of a channel
\* in the order they came).
AnnounceFairness ==
    /\ \A c \in Callers :
          WF_vars(CloseLock(c) \/ CloseFinish(c) \/ AdvertiseLock(c)
                      \/ AdvertiseBody(c))
    /\ \A p \in PubIds : WF_vars(PubRLock(p) \/ PubSend(p))
    /\ SF_vars(\E p \in PubIds : pubAdv[p].Type = "announce" /\ PubSend(p))
    /\ \A ch \in ChanIds : WF_vars(Consume(ch))

FairAnnounceSpec == AnnounceSpec /\ AnnounceFairness

----------------------------------------------------------------------------
(* RegistrySpec: one goroutine calling Close and Init, the registry-watch  *)
(* supervisors start launches and the helpers of their watchers.           *)

RegistryCallerNext ==
    \E c \in {"c1"} :
        \/ CallClose(c)
        \/ CallInit(c)
        \/ CloseLock(c)
        \/ CloseFinish(c)
        \/ InitStart(c)

HelperNext == \E w \in WatcherIds : HelperEval(w) \/ HelperStop(w)

RsNext ==
    \E g \in ExitIds :
        \/ RsTop(g)
        \/ RsNextEvent(g)
        \/ RsNextStopped(g)

RegistryNext ==
    \/ RegistryCallerNext
    \/ RsNext
    \/ HelperNext

RegistrySpec == Init /\ [][RegistryNext]_vars

\* as ShutdownFairness; nothing makes the registry deliver an event
RegistryFairness ==
    /\ WF_vars(CloseLock("c1") \/ CloseFinish("c1") \/ InitStart("c1"))
    /\ \A g \in ExitIds : WF_vars(RsTop(g) \/ RsNextStopped(g))
    /\ \A w \in WatcherIds : WF_vars(HelperEval(w) \/ HelperStop(w))

FairRegistrySpec == RegistrySpec /\ RegistryFairness

----------------------------------------------------------------------------
(* CoalesceSpec: the loop of advertiseEvents (lines 381-454) of the first  *)
(* Advertise call, receiving table events and ticks one after the other.   *)

\* a link-local route of this router and a route learnt from a peer
LocalRoute ==
    Route("svc", "n1", "", "inf", SelfId, DefaultLink, DefaultLocalMetric)
PeerRoute == Route("svc", "n2", "", "inf", PeerId, "network", 10)

\* the table events the loop may receive
CoalesceEvents ==
    {Event(type, 0, route) : type \in EventTypes, route \in {LocalRoute, PeerRoute}}

CoalesceInit ==
    /\ \E strategy \in Strategies :
          Constructed([Id |-> SelfId, Gateway |-> "", Advertise |-> strategy,
                       Prewarm |-> FALSE], TRUE, TRUE)
    /\ HarnessIdle

\* case e := <-r.eventChan (lines 415-447)
CoalesceEvent ==
    /\ cCount < MaxEvents
    /\ \E e \in CoalesceEvents :
          /\ adverts' = [adverts EXCEPT ![1] =
                            advertsStore(@, e, options.Advertise)]
          /\ cSince' = Append(cSince, e)
    /\ cCount' = cCount + 1
    /\ cTicked' = FALSE
    /\ UNCHANGED <<lifecycleVars, options, table, cPrev, cLast, cPubs, harnessP,
                   harnessR>>

\* case <-ticker.C (lines 383-414): cLast is the slice events the loop has
\* built, and line 413 gives it to publishAdvert when it is not empty
CoalesceTick_AlwaysPublish ==
    LET keys == advertsFlushKeys(adverts[1], options.Advertise)
        events == {adverts[1][h] : h \in keys}
    IN  /\ cLast' = events
        /\ adverts' = [adverts EXCEPT ![1] = MapRemove(@, keys)]
        /\ cPubs' = Append(cPubs, [Type |-> "update", Events |-> events])
        /\ cPrev' = cSince
        /\ cSince' = <<>>
        /\ cTicked' = TRUE
        /\ UNCHANGED <<lifecycleVars, options, table, cCount, harnessP, harnessR>>

CoalesceTick ==
    LET keys == advertsFlushKeys(adverts[1], options.Advertise)
        events == {adverts[1][h] : h \in keys}
    IN  /\ cLast' = events
        /\ adverts' = [adverts EXCEPT ![1] = MapRemove(@, keys)]
        /\ cPubs' = IF events # {}
                    THEN Append(cPubs, [Type |-> "update", Events |-> events])
                    ELSE cPubs
        /\ cPrev' = cSince
        /\ cSince' = <<>>
        /\ cTicked' = TRUE
        /\ UNCHANGED <<lifecycleVars, options, table, cCount, harnessP, harnessR>>

CoalesceNext == CoalesceEvent \/ CoalesceTick

CoalesceSpec == CoalesceInit /\ [][CoalesceNext]_vars

----------------------------------------------------------------------------
(* ProcessSpec: calls of Process (lines 605-641) on bounded adverts.       *)

Timestamps == {0, 1}

ProcessEvents ==
    {Event(type, ts, route) :
        type \in EventTypes, ts \in Timestamps, route \in {LocalRoute, PeerRoute}}

\* the event slices of the adverts given to Process
Adverts == UNION {[1..n -> ProcessEvents] : n \in 0..MaxAdvertLen}

\* what one iteration leaves: the table, the error and the events applied
processNext(acc, res, event) ==
    [table |-> res.table, err |-> res.err,
     applied |-> IF res.applied THEN Append(acc.applied, event)
                 ELSE acc.applied]

\* the loop of lines 619-638 over the sorted events; an error ends it
RECURSIVE processLoop_NoAbort(_, _, _)
processLoop_NoAbort(acc, events, id) ==
    IF events = <<>> THEN acc
    ELSE LET res == ProcessEvent(acc.table, Head(events), id)
             nxt == processNext(acc, res, Head(events))
         IN  processLoop_NoAbort(
                 [nxt EXCEPT !.err = IF acc.err # Nil THEN acc.err ELSE res.err],
                 Tail(events), id)

RECURSIVE processLoop(_, _, _)
processLoop(acc, events, id) ==
    IF events = <<>> \/ acc.err # Nil THEN acc
    ELSE processLoop(processNext(acc, ProcessEvent(acc.table, Head(events), id),
                                 Head(events)),
                     Tail(events), id)

ProcessInit ==
    /\ \E prewarm \in BOOLEAN :
          Constructed([Id |-> SelfId, Gateway |-> "", Advertise |-> "all",
                       Prewarm |-> prewarm], TRUE, TRUE)
    /\ HarnessIdle

\* Process returns res for the advert a whose events sort.Slice left as sorted
ProcessReturn(a, sorted, res) ==
    /\ pAdvert' = a
    /\ pBefore' = table
    /\ pSorted' = sorted
    /\ table' = res.table
    /\ pApplied' = res.applied
    /\ pErr' = res.err
    /\ UNCHANGED <<lifecycleVars, options, adverts, harnessC, harnessR>>

ProcessOf(a) ==
    \E p \in SortOrders(a) :
        ProcessReturn(a, [i \in 1..Len(a) |-> a[p[i]]],
                      processLoop([table |-> table, err |-> Nil,
                                   applied |-> <<>>],
                                  [i \in 1..Len(a) |-> a[p[i]]],
                                  options.Id))

Process == \E a \in Adverts : ProcessOf(a)

ProcessSpec == ProcessInit /\ [][Process]_vars

----------------------------------------------------------------------------
(* ProcessAbortSpec: calls of Process on adverts that may hold an event    *)
(* whose Type is none of Create, Delete and Update, for which              *)
(* action.String() is a string manageRoute has no case for.                *)

UnknownType == "unknown"

\* events of a peer's route, and an own event of unknown type
AbortEvents ==
    {Event(type, ts, PeerRoute) :
        type \in {"create", "delete", UnknownType}, ts \in Timestamps}
        \cup {Event(UnknownType, 0, LocalRoute)}

AbortAdverts == UNION {[1..n -> AbortEvents] : n \in 0..MaxAbortLen}

ProcessAbort == \E a \in AbortAdverts : ProcessOf(a)

ProcessAbortSpec == ProcessInit /\ [][ProcessAbort]_vars

----------------------------------------------------------------------------
(* The etcd registry adapter (registry/etcd/etcd.go) and the store behind  *)
(* it.  A key of the store is the sequence of its path segments, a map of  *)
(* the adapter a function on its keys.                                     *)

\* the segment of the key prefix "/platform"
prefix == "platform"
defaultDomain == "inf"

\* the domains, service names, versions, node ids and node addresses in use
Domains == {"d2", "inf"}
ServiceNames == {"a", "a/b"}
Versions == {"v1", "v2"}
NodeIds == {"n1", "n2"}
Addresses == {"x", "y"}

\* byte order of the strings that occur as path segments or service names
StrRank ==
    [s \in {"d2", "inf", "a", "a-b", "a/b", "n1", "n2", "platform"} |->
        CASE s \in {"a", "d2", "n1", "platform"} -> 1
          [] s = "a-b" -> 2
          [] OTHER -> 3]

\* registry.Node and registry.Service; Metadata holds the one entry the
\* adapter and the router use, "" standing for an absent entry
Node(id, address) == [Id |-> id, Address |-> address]

EtcdService(name, version, domain, nodes) ==
    [Name |-> name, Version |-> version, Metadata |-> [domain |-> domain],
     Nodes |-> nodes]

\* hash.Hash(node, nil): the model keeps the hashed fields themselves
NodeHash(node) == <<node.Id, node.Address>>

\* encode (lines 119-122): the JSON text, kept as the list of its fields
encode(s) ==
    <<s.Name, s.Version, s.Metadata.domain,
      [i \in 1..Len(s.Nodes) |-> <<s.Nodes[i].Id, s.Nodes[i].Address>>]>>

\* decode (lines 124-128): <<>> is the nil service a text that does not parse
\* leaves, <<s>> the service s
decode(v) ==
    IF Len(v) # 4 THEN <<>>
    ELSE <<EtcdService(v[1], v[2], v[3],
                       [i \in 1..Len(v[4]) |-> Node(v[4][i][1], v[4][i][2])])>>

\* serializeServiceName (lines 140-142) and the same replacement nodePath
\* makes: "/" becomes "-" (the only name of the model holding "/" is "a/b")
serializeServiceName(s) == IF s = "a/b" THEN "a-b" ELSE s

\* nodePath, servicePath, prefixWithDomain (lines 130-146)
prefixWithDomain(domain) == <<prefix, domain>>
servicePath(domain, s) == <<prefix, domain, serializeServiceName(s)>>
nodePath(domain, s, id) ==
    <<prefix, domain, serializeServiceName(s), serializeServiceName(id)>>

\* path.Split: the directory part of a key
Dir(key) == SubSeq(key, 1, Len(key) - 1)

\* options.Domain after the fallback to the default domain
DomainOf(dom) == IF dom = "" THEN defaultDomain ELSE dom

\* the order in which the store returns keys: ascending byte order
KeyLess(k1, k2) ==
    \E i \in 1..Len(k1) :
        /\ \A j \in 1..(i - 1) : k1[j] = k2[j]
        /\ StrRank[k1[i]] < StrRank[k2[i]]

RECURSIVE SortedKeys(_)
SortedKeys(ks) ==
    IF ks = {} THEN <<>>
    ELSE LET m == CHOOSE k \in ks : \A j \in ks : j = k \/ KeyLess(k, j)
         IN  <<m>> \o SortedKeys(ks \ {m})

\* client.Get(p, WithPrefix): the key-values under the path p, in key order
GetPrefix(st, p) ==
    LET ks == SortedKeys({k \in DOMAIN st : SubSeq(k, 1, Len(p)) = p})
    IN  [i \in 1..Len(ks) |-> [Key |-> ks[i], Value |-> st[ks[i]].Value,
                               Lease |-> st[ks[i]].Lease]]

\* The operations below work on e = [store, live, made, register, leases,
\* grants, puts, renews, deletes, err]: the store, its live leases and the
\* number it has granted, the two caches of the adapter, the number of Grant,
\* Put, KeepAliveOnce and Delete calls the operation has made, and its error.

\* lines 179-184: the maps of a domain are made on first use
ensureDomain(m, domain) ==
    IF domain \in DOMAIN m THEN m ELSE MapPut(m, domain, EmptyMap)

\* lines 289-296: Grant
registerGrant(e) ==
    [e EXCEPT !.made = @ + 1, !.live = @ \cup {e.made + 1}, !.grants = @ + 1]

\* lines 271-322: Put of the service restricted to the node, under the lease
\* lgr (0: no lease), and the update of the caches
registerPut(e, lgr, s, node, domain) ==
    [e EXCEPT
        !.store = MapPut(@, nodePath(domain, s.Name, node.Id),
                         [Value |-> encode(EtcdService(s.Name, s.Version,
                                                       domain, <<node>>)),
                          Lease |-> lgr]),
        !.puts = @ + 1,
        !.register[domain] = MapPut(@, s.Name \o node.Id, NodeHash(node)),
        !.leases[domain] =
            IF lgr > 0 THEN MapPut(@, s.Name \o node.Id, lgr) ELSE @]

\* registerCheck without the skip of lines 263-269
registerCheck_NoSkip(e, leaseNotFound, s, node, domain, ttl) ==
    IF ttl > 0
    THEN registerPut(registerGrant(e), e.made + 1, s, node, domain)
    ELSE registerPut(e, 0, s, node, domain)

\* lines 252-296: the node is skipped when its hash is the cached one and the
\* lease was not reported missing; otherwise a lease is granted if a TTL is
\* given and the node is written
registerCheck(e, leaseNotFound, s, node, domain, ttl) ==
    IF /\ (s.Name \o node.Id) \in DOMAIN e.register[domain]
       /\ e.register[domain][s.Name \o node.Id] = NodeHash(node)
       /\ ~leaseNotFound
    THEN e
    ELSE IF ttl > 0
    THEN registerPut(registerGrant(e), e.made + 1, s, node, domain)
    ELSE registerPut(e, 0, s, node, domain)

\* registerRenew that takes every lease for a live one
registerRenew_AlwaysFound(e, leaseID, s, node, domain, ttl) ==
    IF leaseID > 0
    THEN registerCheck([e EXCEPT !.renews = @ + 1], FALSE, s, node, domain, ttl)
    ELSE registerCheck(e, FALSE, s, node, domain, ttl)

\* lines 230-250: one KeepAliveOnce of a known lease; the store answers
\* ErrLeaseNotFound for a lease that is not live
registerRenew(e, leaseID, s, node, domain, ttl) ==
    IF leaseID > 0
    THEN registerCheck([e EXCEPT !.renews = @ + 1], leaseID \notin e.live,
                       s, node, domain, ttl)
    ELSE registerCheck(e, FALSE, s, node, domain, ttl)

\* registerAdopt that saves nothing
registerAdopt_Nothing(e, kv, s, node, domain) == e

\* lines 207-223: the lease and the hash of the stored node go into the caches
\* unless the stored value does not decode or holds no node
registerAdopt(e, kv, s, node, domain) ==
    IF decode(kv.Value) = <<>> THEN e
    ELSE IF decode(kv.Value)[1].Nodes = <<>> THEN e
    ELSE [e EXCEPT
            !.leases[domain] = MapPut(@, s.Name \o node.Id, kv.Lease),
            !.register[domain] =
                MapPut(@, s.Name \o node.Id,
                       NodeHash(decode(kv.Value)[1].Nodes[1]))]

\* lines 186-228: the cached lease, or the lease of the key in the store
registerLookup(e, s, node, domain, ttl) ==
    IF (s.Name \o node.Id) \in DOMAIN e.leases[domain]
    THEN registerRenew(e, e.leases[domain][s.Name \o node.Id],
                       s, node, domain, ttl)
    ELSE IF /\ nodePath(domain, s.Name, node.Id) \in DOMAIN e.store
            /\ e.store[nodePath(domain, s.Name, node.Id)].Lease > 0
    THEN registerRenew(
             registerAdopt(e, e.store[nodePath(domain, s.Name, node.Id)],
                           s, node, domain),
             e.store[nodePath(domain, s.Name, node.Id)].Lease,
             s, node, domain, ttl)
    ELSE registerRenew(e, 0, s, node, domain, ttl)

\* etcdRegistry.registerNode (lines 156-323) with a store that does not fail
registerNode(e, s, node, dom, ttl) ==
    registerLookup([e EXCEPT !.leases = ensureDomain(@, DomainOf(dom)),
                             !.register = ensureDomain(@, DomainOf(dom))],
                   s, node, DomainOf(dom), ttl)

\* etcdRegistry.Register (lines 362-377): every node in turn
RECURSIVE registerNodes(_, _, _, _, _)
registerNodes(e, s, nodes, dom, ttl) ==
    IF nodes = <<>> THEN e
    ELSE registerNodes(registerNode(e, s, Head(nodes), dom, ttl),
                       s, Tail(nodes), dom, ttl)

Register(e, s, dom, ttl) ==
    IF s.Nodes = <<>> THEN [e EXCEPT !.err = "Require at least one node"]
    ELSE registerNodes(e, s, s.Nodes, dom, ttl)

\* a Deregister that deletes the key of the first node only
deregisterNodes_FirstOnly(e, s, nodes, domain) ==
    [e EXCEPT !.store = MapRemove(@, {nodePath(domain, s.Name, Head(nodes).Id)}),
              !.deletes = @ + 1]

\* etcdRegistry.Deregister (lines 325-360): for every node, the two delete
\* statements on e.register and e.leases with the key name+id (lines 342-344),
\* then the Delete of the node key
RECURSIVE deregisterNodes(_, _, _, _)
deregisterNodes(e, s, nodes, domain) ==
    IF nodes = <<>> THEN e
    ELSE deregisterNodes(
             [e EXCEPT
                 !.register = MapRemove(@, {s.Name \o Head(nodes).Id}),
                 !.leases = MapRemove(@, {s.Name \o Head(nodes).Id}),
                 !.store = MapRemove(@, {nodePath(domain, s.Name,
                                                  Head(nodes).Id)}),
                 !.deletes = @ + 1],
             s, Tail(nodes), domain)

Deregister(e, s, dom) ==
    IF s.Nodes = <<>> THEN [e EXCEPT !.err = "Require at least one node"]
    ELSE deregisterNodes(e, s, s.Nodes, DomainOf(dom))

\* strings.Contains(key, "/name/") of line 402: the serialized name is a
\* segment of the key other than the last
ContainsSegment(key, name) ==
    \E i \in 1..(Len(key) - 1) : key[i] = serializeServiceName(name)

\* GetService, lines 392-413: the key-values the loop below groups
getResults(st, name, domain) ==
    IF domain = WildcardDomain
    THEN SelectSeq(GetPrefix(st, <<prefix>>),
                   LAMBDA kv : ContainsSegment(kv.Key, name))
    ELSE GetPrefix(st, servicePath(domain, name))

\* GetService, lines 427-440, for one key-value whose value decodes to sn:
\* the map is looked up under the directory of the key; a service that is
\* not found is made from sn and stored under its version (line 436), one
\* that is found gets the nodes of sn appended.  A key of the map is a path:
\* the directory, or the one segment a version string is.
getGroupNode(versions, dir, sn) ==
    IF dir \in DOMAIN versions
    THEN [versions EXCEPT ![dir].Nodes = @ \o sn.Nodes]
    ELSE MapPut(versions, <<sn.Version>>, sn)

\* GetService, lines 419-441: the loop over the key-values
RECURSIVE getGroup(_, _)
getGroup(versions, kvs) ==
    IF kvs = <<>> THEN versions
    ELSE IF decode(Head(kvs).Value) = <<>> THEN getGroup(versions, Tail(kvs))
    ELSE getGroup(getGroupNode(versions, Dir(Head(kvs).Key),
                               decode(Head(kvs).Value)[1]),
                  Tail(kvs))

\* the services a map holds (lines 443-446, 503-506)
MapValues(m) == {m[k] : k \in DOMAIN m}

getAnswer(results) ==
    IF results = <<>> THEN [services |-> {}, err |-> "ErrNotFound"]
    ELSE [services |-> MapValues(getGroup(EmptyMap, results)), err |-> Nil]

\* etcdRegistry.GetService (lines 379-449) with a store that does not fail;
\* the services come in the order of a range over a map, kept as a set
GetService(st, name, dom) == getAnswer(getResults(st, name, DomainOf(dom)))

\* ListServices, lines 482-500, for one key-value whose value decodes to sn
listGroupNode(versions, dir, sn) ==
    IF dir \in DOMAIN versions
    THEN [versions EXCEPT ![dir].Nodes = @ \o sn.Nodes]
    ELSE MapPut(versions, dir, sn)

\* ListServices, lines 480-501: the loop over the key-values
RECURSIVE listGroup(_, _)
listGroup(versions, kvs) ==
    IF kvs = <<>> THEN versions
    ELSE IF decode(Head(kvs).Value) = <<>> THEN listGroup(versions, Tail(kvs))
    ELSE listGroup(listGroupNode(versions, Dir(Head(kvs).Key),
                                 decode(Head(kvs).Value)[1]),
                   Tail(kvs))

\* the key-values ListServices reads (lines 461-475)
listResults(st, domain) ==
    IF domain = WildcardDomain THEN GetPrefix(st, <<prefix>>)
    ELSE GetPrefix(st, prefixWithDomain(domain))

\* sort.Slice(services, Name <): the orders it may leave a set of services in
NameOrders(services) ==
    {q \in KeyOrders(services) :
        \A i, j \in 1..Len(q) :
            i < j => StrRank[q[i].Name] <= StrRank[q[j].Name]}

\* etcdRegistry.ListServices (lines 451-512) with a store that does not
\* fail: the services before the sort
ListServices(st, dom) ==
    MapValues(listGroup(EmptyMap, listResults(st, DomainOf(dom))))

----------------------------------------------------------------------------
(* EtcdSpec: calls of Register and Deregister on one adapter, one after    *)
(* the other, with leases that expire and restarts of the adapter (a new   *)
(* adapter with empty caches on the same store).  QuerySpec: calls of      *)
(* GetService and ListServices on the stores Register fills.               *)

\* the node lists and the services given to Register and Deregister: one
\* service name, whose "/" the key does not keep
NodeLists ==
    {<<Node(id, a)>> : id \in NodeIds, a \in Addresses}
        \cup {<<Node("n1", "x"), Node("n2", "x")>>, <<>>}

RegisterArgs ==
    {EtcdService("a/b", "v1", "", nodes) : nodes \in NodeLists}

\* the services registered before a query: every version, one address
QueryArgs ==
    {EtcdService(name, v, "", nodes) :
        name \in ServiceNames, v \in Versions,
        nodes \in {<<Node("n1", "x")>>, <<Node("n2", "x")>>,
                   <<Node("n1", "x"), Node("n2", "x")>>}}

DeregisterArgs ==
    {EtcdService("a/b", "v1", "", nodes) :
        nodes \in {<<Node("n1", "x")>>, <<Node("n2", "x")>>,
                   <<Node("n1", "x"), Node("n2", "x")>>, <<>>}}

\* the Domain option: "" is the option left out
DomainOptions == {"", "d2"}
\* the TTL option in seconds
TTLs == {0, 1}

\* the adapter and the store as an operation finds them
EtcdState ==
    [store |-> store, live |-> leaseLive, made |-> leaseMade,
     register |-> register, leases |-> leases,
     grants |-> 0, puts |-> 0, renews |-> 0, deletes |-> 0, err |-> Nil]

\* the call o returns, leaving the adapter and the store as e
EtcdReturn(o, e) ==
    /\ store' = e.store
    /\ leaseLive' = e.live
    /\ leaseMade' = e.made
    /\ register' = e.register
    /\ leases' = e.leases
    /\ eOp' = o
    /\ eRet' = [err |-> e.err, grants |-> e.grants, puts |-> e.puts,
                renews |-> e.renews, deletes |-> e.deletes]
    /\ eCalls' = eCalls + 1
    /\ UNCHANGED <<lifecycleVars, options, table, adverts, harnessC, harnessP,
                   harnessW, harnessM, harnessH>>

EtcdRegister(services, ttls) ==
    /\ eCalls < MaxEtcdCalls
    /\ \E s \in services, dom \in DomainOptions, ttl \in ttls :
          EtcdReturn([name |-> "Register", service |-> s, domain |-> dom,
                      ttl |-> ttl],
                     Register(EtcdState, s, dom, ttl))

EtcdDeregister ==
    /\ eCalls < MaxEtcdCalls
    /\ \E s \in DeregisterArgs, dom \in DomainOptions :
          EtcdReturn([name |-> "Deregister", service |-> s, domain |-> dom],
                     Deregister(EtcdState, s, dom))

\* NewRegistry (lines 45-53): an adapter with empty caches takes over
EtcdRestart ==
    /\ eCalls < MaxEtcdCalls
    /\ EtcdReturn([name |-> "NewRegistry"],
                  [EtcdState EXCEPT !.register = EmptyMap, !.leases = EmptyMap])

\* the store expires a lease and deletes the keys attached to it
LeaseExpire ==
    /\ eCalls < MaxEtcdCalls
    /\ \E l \in leaseLive :
          EtcdReturn([name |-> "expire", lease |-> l],
                     [EtcdState EXCEPT
                         !.live = @ \ {l},
                         !.store = MapRemove(@, {k \in DOMAIN store :
                                                   store[k].Lease = l})])

\* a call that reads the store only
EtcdRead(o, r) ==
    /\ eOp' = o
    /\ eRet' = r
    /\ UNCHANGED <<lifecycleVars, options, table, adverts, harnessC, harnessP,
                   harnessW, harnessM, harnessH, store, leaseLive, leaseMade, register,
                   leases, eCalls>>

\* the names GetService is asked for: those of the services, and a name that
\* is also the name of a domain
QueryNames == ServiceNames \cup {defaultDomain}

EtcdGetService ==
    \E name \in QueryNames, dom \in DomainOptions \cup {WildcardDomain} :
        EtcdRead([name |-> "GetService", service |-> name, domain |-> dom],
                 GetService(store, name, dom))

EtcdListServices ==
    \E dom \in DomainOptions \cup {WildcardDomain} :
        \E q \in NameOrders(ListServices(store, dom)) :
            EtcdRead([name |-> "ListServices", domain |-> dom],
                     [services |-> q, err |-> Nil])

\* the adapter is made once the router is: the router plays no part here
EtcdInit ==
    /\ Constructed([Id |-> SelfId, Gateway |-> "", Advertise |-> "all",
                    Prewarm |-> FALSE], TRUE, TRUE)
    /\ HarnessIdle

EtcdNext ==
    \/ EtcdRegister(RegisterArgs, TTLs)
    \/ EtcdDeregister
    \/ EtcdRestart
    \/ LeaseExpire

EtcdSpec == EtcdInit /\ [][EtcdNext]_vars

QueryNext ==
    \/ EtcdRegister(QueryArgs, {1})
    \/ EtcdGetService
    \/ EtcdListServices

QuerySpec == EtcdInit /\ [][QueryNext]_vars

----------------------------------------------------------------------------
(* WatchSpec: one etcdWatcher (registry/etcd/watcher.go).  The store sends *)
(* watch responses on ew.w, Next is called again and again by one          *)
(* goroutine, Stop cancels the watch.                                      *)

\* an event of the store on the key key: Type is PUT or DELETE, IsCreate
\* tells a PUT that made the key from one that modified it
WatchEvent(key, type, isCreate, value, prevValue) ==
    [Key |-> key, Type |-> type, IsCreate |-> isCreate, Value |-> value,
     PrevValue |-> prevValue]

\* the events of the store: a create and a delete of a node in the default
\* domain, a modification of a node in another domain, and a put of a value
\* that is not a service
WatchEvents ==
    {WatchEvent(nodePath("inf", "a", "n1"), "PUT", TRUE,
                encode(EtcdService("a", "v1", "inf", <<Node("n1", "x")>>)),
                <<>>),
     WatchEvent(nodePath("d2", "a", "n2"), "PUT", FALSE,
                encode(EtcdService("a", "v1", "d2", <<Node("n2", "y")>>)),
                encode(EtcdService("a", "v1", "d2", <<Node("n2", "x")>>))),
     WatchEvent(nodePath("inf", "a", "n1"), "DELETE", FALSE, <<>>,
                encode(EtcdService("a", "v1", "inf", <<Node("n1", "x")>>))),
     WatchEvent(nodePath("inf", "a", "n1"), "PUT", TRUE, <<"junk">>, <<>>)}

\* client.Watch(path, WithPrefix): the events on the keys under the path
WatchedEvents(path) ==
    {ev \in WatchEvents : SubSeq(ev.Key, 1, Len(path)) = path}

WatchResponse(err, canceled, events) ==
    [Err |-> err, Canceled |-> canceled, Events |-> events]

EventLists(path) ==
    UNION {[1..n -> WatchedEvents(path)] : n \in 0..MaxWatchEvents}

WatchResponses(path) ==
    {WatchResponse(Nil, FALSE, evs) : evs \in EventLists(path)}
        \cup {WatchResponse("watch error", FALSE, <<>>),
              WatchResponse(Nil, TRUE, <<>>)}

\* Next, lines 832-856, for one event: the result returned for it, or none
\* when its value does not decode (line 850)
eventResult(ev) ==
    IF ev.Type = "PUT"
    THEN IF decode(ev.Value) = <<>> THEN <<>>
         ELSE <<[Action |-> IF ev.IsCreate THEN "create" ELSE "update",
                 Service |-> decode(ev.Value)[1]]>>
    ELSE IF decode(ev.PrevValue) = <<>> THEN <<>>
         ELSE <<[Action |-> "delete", Service |-> decode(ev.PrevValue)[1]]>>

\* Next, lines 831-857: the loop over the events of one response returns at
\* the first event that has a result
RECURSIVE firstResult(_)
firstResult(events) ==
    IF events = <<>> THEN <<>>
    ELSE IF eventResult(Head(events)) # <<>> THEN eventResult(Head(events))
    ELSE firstResult(Tail(events))

\* Next, lines 824-859: the loop over the channel from the response after
\* pos on.  blocked: the channel is empty and open, and the call waits.
RECURSIVE nextScan(_, _, _)
nextScan(resps, pos, closed) ==
    IF pos = Len(resps)
    THEN [pos |-> pos, result |-> <<>>,
          err |-> IF closed THEN "could not get next" ELSE Nil,
          blocked |-> ~closed]
    ELSE IF resps[pos + 1].Err # Nil
    THEN [pos |-> pos + 1, result |-> <<>>, err |-> resps[pos + 1].Err,
          blocked |-> FALSE]
    ELSE IF resps[pos + 1].Canceled
    THEN [pos |-> pos + 1, result |-> <<>>, err |-> "could not get next",
          blocked |-> FALSE]
    ELSE IF firstResult(resps[pos + 1].Events) # <<>>
    THEN [pos |-> pos + 1, result |-> firstResult(resps[pos + 1].Events),
          err |-> Nil, blocked |-> FALSE]
    ELSE nextScan(resps, pos + 1, closed)

\* newEtcdWatcher (lines 788-821) with the Domain option dom and the
\* Service option service, "" being an option left out: the error, whether a
\* watcher is returned, and the path it watches
newEtcdWatcher_NoCheck(dom, service) ==
    [err |-> Nil, made |-> TRUE,
     path |-> IF DomainOf(dom) # WildcardDomain /\ service # ""
              THEN servicePath(DomainOf(dom), service) ELSE <<prefix>>]

newEtcdWatcher(dom, service) ==
    IF DomainOf(dom) = WildcardDomain
    THEN IF service # ""
         THEN [err |-> "Cannot watch a service accross domains",
               made |-> FALSE, path |-> <<>>]
         ELSE [err |-> Nil, made |-> TRUE, path |-> <<prefix>>]
    ELSE IF service # ""
    THEN [err |-> Nil, made |-> TRUE,
          path |-> servicePath(DomainOf(dom), service)]
    ELSE [err |-> Nil, made |-> TRUE, path |-> <<prefix>>]

\* the options given to Watch
WatchDomains == {"", "d2", WildcardDomain}
WatchServices == {"", "a"}

\* etcdRegistry.Watch (lines 514-516 of the adapter): a call while no
\* watcher is open
WatchOpen ==
    /\ ~wWatch.made
    /\ \E dom \in WatchDomains, service \in WatchServices :
          wWatch' = [called |-> TRUE, domain |-> dom, service |-> service,
                     err |-> newEtcdWatcher(dom, service).err,
                     made |-> newEtcdWatcher(dom, service).made,
                     path |-> newEtcdWatcher(dom, service).path]
    /\ UNCHANGED <<lifecycleVars, options, table, adverts, harnessC, harnessP,
                   harnessE, harnessM, harnessH, wSent, wPos, wOut, wErr, wClosed>>

\* the store sends a response on ew.w
WatchDeliver ==
    /\ wWatch.made
    /\ ~wClosed
    /\ Len(wSent) < MaxResponses
    /\ \E w \in WatchResponses(wWatch.path) : wSent' = Append(wSent, w)
    /\ UNCHANGED <<lifecycleVars, options, table, adverts, harnessC, harnessP,
                   harnessE, harnessM, harnessH, wPos, wOut, wErr, wClosed, wWatch>>

\* etcdWatcher.Next: a call that returns
WatchNext ==
    /\ wWatch.made
    /\ ~nextScan(wSent, wPos, wClosed).blocked
    /\ Len(wOut) < MaxResponses * MaxWatchEvents
    /\ wPos' = nextScan(wSent, wPos, wClosed).pos
    /\ wOut' = wOut \o nextScan(wSent, wPos, wClosed).result
    /\ wErr' = nextScan(wSent, wPos, wClosed).err
    /\ UNCHANGED <<lifecycleVars, options, table, adverts, harnessC, harnessP,
                   harnessE, harnessM, harnessH, wSent, wClosed, wWatch>>

\* etcdWatcher.Stop (lines 862-869) cancels the context of the watch (lines
\* 800-803) and the client closes ew.w
WatchStop ==
    /\ wWatch.made
    /\ ~wClosed
    /\ wClosed' = TRUE
    /\ UNCHANGED <<lifecycleVars, options, table, adverts, harnessC, harnessP,
                   harnessE, harnessM, harnessH, wSent, wPos, wOut, wErr, wWatch>>

WatchNextStep ==
    \/ WatchOpen
    \/ WatchDeliver
    \/ WatchNext
    \/ WatchStop

WatchSpec == EtcdInit /\ [][WatchNextStep]_vars

----------------------------------------------------------------------------
(* PrewarmSpec: services register with the etcd adapter, then newRouter    *)
(* makes a router with Prewarm set on that registry and starts it.         *)

\* the service manageRoutes reads out of one the registry returned: its name
\* and the address of every node (lines 129-132)
routerService(srv) ==
    [Name |-> srv.Name, Domain |-> srv.Metadata.domain,
     Nodes |-> [i \in 1..Len(srv.Nodes) |-> srv.Nodes[i].Address]]

\* manageRegistryRoutes, lines 160-165: the domain of a listed service
serviceDomain(service) ==
    IF service.Metadata.domain # "" THEN service.Metadata.domain
    ELSE WildcardDomain

\* manageRegistryRoutes, lines 173-177: manageRoutes on the services of one
\* GetService answer in the order srvs, stopping at the first error
RECURSIVE manageGot(_, _, _, _, _)
manageGot(t, srvs, action, domain, id) ==
    IF srvs = <<>> THEN [table |-> t, err |-> Nil]
    ELSE IF manageRoutes(t, routerService(Head(srvs)), action, domain, id).err
               # Nil
    THEN manageRoutes(t, routerService(Head(srvs)), action, domain, id)
    ELSE manageGot(manageRoutes(t, routerService(Head(srvs)), action, domain,
                                id).table,
                   Tail(srvs), action, domain, id)

\* manageRegistryRoutes, lines 158-180, on the store st: the loop over the
\* listed services.  A GetService that fails is passed over (line 170).  The
\* outcomes are a set: GetService answers in the order of a range over a map.
RECURSIVE manageListed(_, _, _, _, _)
manageListedNext(res, st, listed, action, id) ==
    IF res.err # Nil THEN {res}
    ELSE manageListed(res.table, st, listed, action, id)

manageListed(t, st, listed, action, id) ==
    IF listed = <<>> THEN {[table |-> t, err |-> Nil]}
    ELSE IF GetService(st, Head(listed).Name,
                       serviceDomain(Head(listed))).err # Nil
    THEN manageListed(t, st, Tail(listed), action, id)
    ELSE UNION {manageListedNext(
                    manageGot(t, q, action, serviceDomain(Head(listed)), id),
                    st, Tail(listed), action, id) :
                q \in KeyOrders(GetService(st, Head(listed).Name,
                                           serviceDomain(Head(listed))).services)}

\* router.manageRegistryRoutes (lines 151-181) with the etcd adapter on the
\* store st as the registry: the outcomes it may have
manageRegistryRoutesOn(t, st, action, id) ==
    UNION {manageListed(t, st, listed, action, id) :
           listed \in NameOrders(ListServices(st, WildcardDomain))}

\* the services registered before the router starts: nodes with an address
\* of their own
PrewarmArgs ==
    {EtcdService(name, v, "", nodes) :
        name \in ServiceNames, v \in Versions,
        nodes \in {<<Node("n1", "x")>>, <<Node("n2", "y")>>,
                   <<Node("n1", "x"), Node("n2", "y")>>}}

\* newRouter up to line 58: the router made, not started yet
PrewarmInit ==
    /\ \E gw \in GatewayChoices :
          ConstructedWith([Id |-> SelfId, Gateway |-> gw, Advertise |-> "all",
                           Prewarm |-> TRUE],
                          [running |-> FALSE, exit |-> 0, exitMade |-> 0,
                           table |-> {}, err |-> Nil, spawned |-> FALSE])
    /\ HarnessIdle

\* a service registers while the router is not made yet
PrewarmRegister ==
    /\ op["c1"] = "none"
    /\ EtcdRegister(PrewarmArgs, {1})

\* the fields of the router after a start that answered res
StartedWith(res) ==
    /\ running' = res.running
    /\ exit' = res.exit
    /\ exitMade' = res.exitMade
    /\ table' = res.table
    /\ rsPc' = [rsPc EXCEPT ![res.exit] = IF res.spawned THEN "top" ELSE @]
    /\ rsW' = [rsW EXCEPT ![res.exit] = IF res.spawned THEN 0 ELSE @]
    /\ watchers' = [watchers EXCEPT
                       ![<<"reg", res.exit, 0>>] =
                           IF res.spawned THEN RegistryWatcher(WildcardDomain)
                           ELSE @]

\* newRouter, line 59: r.start() with Prewarm set (lines 469-508), the etcd
\* adapter being the registry
PrewarmStart ==
    /\ op["c1"] = "none"
    /\ \E warm \in manageRegistryRoutesOn(table, store, "create", options.Id),
          watchOk \in BOOLEAN :
          /\ StartedWith(startGateway([running |-> running, exit |-> exit,
                                       exitMade |-> exitMade, table |-> table,
                                       options |-> options], warm, watchOk))
          /\ ret' = [ret EXCEPT !["c1"] =
                        [err |-> startGateway(
                                     [running |-> running, exit |-> exit,
                                      exitMade |-> exitMade, table |-> table,
                                      options |-> options], warm, watchOk).err,
                         chan |-> 0]]
    /\ op' = [op EXCEPT !["c1"] = "start"]
    /\ calls' = calls + 1
    /\ UNCHANGED <<exitClosed, eventChan, eventClosed, eventMade, subscribers,
                   chanBuf, chanClosed, chanMade, mu, subReaders, panicked,
                   pc, pubVars, coVars, tsVars, options, adverts,
                   harnessC, harnessP, harnessR>>

PrewarmNext ==
    \/ PrewarmRegister
    \/ PrewarmStart

PrewarmSpec == PrewarmInit /\ [][PrewarmNext]_vars

----------------------------------------------------------------------------
(* ManageSpec: manageRoutes (lines 124-147) applied to the results a       *)
(* registry watcher hands over, one after the other, on the table the      *)
(* earlier ones left.                                                      *)

\* the services of the results: the address of each node, in order
ManageServices ==
    {[Name |-> "a", Domain |-> "inf", Nodes |-> nodes] :
        nodes \in {<<>>, <<"x">>, <<"y">>, <<"x", "y">>, <<"y", "x">>,
                   <<"x", "x">>}}

\* the actions of the results, one of them not an action of the table
ManageActions == {"create", "Create", "delete", "DELETE", "update", "bogus"}

ManageApply ==
    \E service \in ManageServices, action \in ManageActions,
       network \in Domains :
        /\ mArgs' = [action |-> action, service |-> service,
                     network |-> network]
        /\ mBefore' = table
        /\ table' = manageRoutes(table, service, action, network,
                                 options.Id).table
        /\ mErr' = manageRoutes(table, service, action, network,
                                options.Id).err
        /\ UNCHANGED <<lifecycleVars, options, adverts, harnessC, harnessP,
                       harnessE, harnessW, harnessH>>

ManageNext ==
    \/ ManageApply

ManageSpec == EtcdInit /\ [][ManageNext]_vars

----------------------------------------------------------------------------
(* Properties of Close, Advertise and Init.                                *)

\* C1: a Close on a router that is already closed (its exit channel is closed)
\* returns nil and leaves running, the exit channel, the subscribers, the
\* event channel and the routing table as they are.
C1_CloseIdempotent ==
    [][\A c \in Callers :
          (/\ op[c] = "Close" /\ pc[c] = "close" /\ pc'[c] # "close"
           /\ exit # 0 /\ exit \in exitClosed)
          => /\ pc'[c] = "idle"
             /\ ret'[c].err = Nil
             /\ UNCHANGED <<running, exit, exitClosed, subscribers, chanClosed,
                            eventChan, eventClosed, table>>]_vars

\* two calls were made on a router that was running, the second one a Close
\* that has returned, and no Advertise among them: a Close after a Close
C1_Witness ==
    /\ calls = 2 /\ op["c1"] = "Close" /\ pc["c1"] = "idle" /\ op["c2"] = "none"
    /\ rsPc[1] = "top" /\ chanMade = 0 /\ ret["c1"].err = Nil
    /\ exit \in exitClosed

\* C2: when Close returns on a running router, every channel Advertise has
\* returned is closed, no subscriber is left, the event channel is nil, the
\* exit channel is closed and running is false.
C2_CloseClosesAll ==
    [][\A c \in Callers :
          (/\ op[c] = "Close" /\ running /\ pc[c] \in {"close", "close_subs"}
           /\ pc'[c] = "idle")
          => /\ \A ch \in 1..chanMade : ch \in chanClosed'
             /\ subscribers' = {}
             /\ eventChan' = 0
             /\ exit' \in exitClosed'
             /\ ~running']_vars

\* Close has returned on a router with two subscribers
C2_Witness ==
    \E c \in Callers :
        /\ op[c] = "Close" /\ pc[c] = "idle" /\ chanMade = 2
        /\ chanClosed = {1, 2} /\ subscribers = {} /\ ~running

\* C3: Advertise on a router that is not running returns the error "not
\* running" and no channel, registers no subscriber and starts no goroutine.
C3_AdvertiseNotRunning ==
    [][\A c \in Callers :
          (/\ op[c] = "Advertise" /\ pc[c] = "adv" /\ pc'[c] # "adv"
           /\ ~running)
          => /\ pc'[c] = "idle"
             /\ ret'[c] = [err |-> "not running", chan |-> 0]
             /\ UNCHANGED <<subscribers, chanMade, eventChan, eventMade,
                            pubPc, coPc, tsPc>>]_vars

\* an Advertise has returned "not running" after a Close
C3_Witness ==
    \E c \in Callers :
        /\ op[c] = "Advertise" /\ pc[c] = "idle"
        /\ ret[c] = [err |-> "not running", chan |-> 0]
        /\ exit \in exitClosed /\ ~running

\* C4: an Init returns no error unless Registry.Watch failed, and an Init that
\* returned no error leaves the router running, whatever the options are.
C4_InitRestarts ==
    \A c \in Callers :
        (op[c] = "Init" /\ pc[c] = "idle")
        => /\ ret[c].err \in {Nil, "failed creating registry watcher"}
           /\ ret[c].err = Nil => running

\* the goroutines of Advertise: advertiseEvents and its table-watch supervisor
TasksDone ==
    \A k \in EventIds :
        coPc[k] \in {"none", "done"} /\ tsPc[k] \in {"none", "done"}

\* C5: once Close is called (there is no Init in ShutdownSpec, so the router is
\* not restarted), advertiseEvents and its table-watch supervisor eventually
\* terminate, unless a panic ends the process.
C5_NoTaskLeak ==
    (\E c \in Callers : op[c] = "Close" /\ pc[c] = "close")
        ~> (TasksDone \/ panicked)

\* C6: when Init is called on a running router, every registry-watch
\* supervisor started before that call eventually terminates.
C6_InitStopsOldTasks ==
    \A c \in Callers, g \in ExitIds :
        (/\ op[c] = "Init" /\ pc[c] = "close" /\ running
         /\ rsPc[g] \in {"top", "next"})
        ~> (rsPc[g] = "done")

\* C10: every call of Close eventually returns, unless a panic ends the
\* process, also when no reader ever receives from a subscriber channel.
C10_CloseCompletes ==
    \A c \in Callers :
        (op[c] = "Close" /\ pc[c] = "close") ~> (pc[c] = "idle" \/ panicked)

----------------------------------------------------------------------------
(* Properties of Process.                                                  *)

\* the events of evs that another router originated
PeerEvents(evs) == SelectSeq(evs, LAMBDA e : e.Route.Router # options.Id)

\* the table after manageRoute has been applied for each event of evs in turn
RECURSIVE ApplyAll(_, _)
ApplyAll(t, evs) ==
    IF evs = <<>> THEN t
    ELSE ApplyAll(manageRoute(t, Head(evs).Route, Head(evs).Type).table,
                  Tail(evs))

\* no event after the i-th is about the route of the i-th
LastFor(evs, i) ==
    \A j \in (i + 1)..Len(evs) : Hash(evs[j].Route) # Hash(evs[i].Route)

\* C7: Process applies exactly the events whose Route.Router is not the own
\* Id, in sorted order: the table is the table before with those events
\* applied, an advert of own events only leaves it unchanged, and the route of
\* a peer's event is in the table afterwards unless its last event deletes it.
C7_LoopAvoidance ==
    /\ pErr = Nil
    /\ pApplied = PeerEvents(pSorted)
    /\ table = ApplyAll(pBefore, PeerEvents(pSorted))
    /\ (\A i \in 1..Len(pAdvert) : pAdvert[i].Route.Router = options.Id)
          => table = pBefore
    /\ \A i \in 1..Len(pSorted) :
          (pSorted[i].Route.Router # options.Id /\ LastFor(pSorted, i))
          => (TableHas(table, pSorted[i].Route) <=> pSorted[i].Type # "delete")

\* Process was given an own Create and a peer's Create on an empty table, and
\* only the peer's route is in the table
C7_Witness ==
    /\ Len(pAdvert) = 2 /\ pBefore = {} /\ table = {PeerRoute}
    /\ \E i, j \in 1..2 :
          /\ pAdvert[i] = Event("create", 0, LocalRoute)
          /\ pAdvert[j] = Event("create", 1, PeerRoute)

----------------------------------------------------------------------------
(* Properties of the advertiseEvents loop.                                 *)

\* the advertising strategy lets the event e through (lines 421-428)
Admitted(e) ==
    /\ options.Advertise # "none"
    /\ options.Advertise = "local" => e.Route.Link = "local"

SameHash(evs) ==
    \A i \in 1..Len(evs) : Hash(evs[i].Route) = Hash(evs[1].Route)

TypesOf(evs) == [i \in 1..Len(evs) |-> evs[i].Type]

\* C8: after a Create and a Delete (or a Delete and a Create) of one route
\* between two ticks, under a strategy that admits the route, the tick
\* publishes exactly the second event and leaves the pending map empty.
C8_ReplaceOnTypeChange ==
    (/\ cTicked /\ Len(cPrev) = 2 /\ SameHash(cPrev)
     /\ TypesOf(cPrev) \in {<<"create", "delete">>, <<"delete", "create">>}
     /\ Admitted(cPrev[1]))
    => cLast = {cPrev[2]} /\ adverts[1] = EmptyMap

\* a tick has followed the events Create, Delete, Create of one route
Flap ==
    /\ cTicked /\ Len(cPrev) = 3 /\ SameHash(cPrev)
    /\ TypesOf(cPrev) = <<"create", "delete", "create">>

\* the tick published one event, a Create of that route, and the pending map
\* is empty
OneCreate ==
    /\ Cardinality(cLast) = 1
    /\ \A e \in cLast : e.Type = "create" /\ Hash(e.Route) = Hash(cPrev[1].Route)
    /\ adverts[1] = EmptyMap

\* C9 as amended: after Create, Delete, Create of one route between two ticks,
\* under a strategy that admits the route, the tick publishes exactly one
\* event, a Create of that route, and leaves the pending map empty.
C9_FlapSuppressed == (Flap /\ Admitted(cPrev[1])) => OneCreate

\* C9 as stated, for every advertising strategy
C9_FlapSuppressedAlways == Flap => OneCreate

\* the flap has happened under a strategy that admits the route and the tick
\* has published its one Create
C9_Witness == Flap /\ Admitted(cPrev[1]) /\ OneCreate

----------------------------------------------------------------------------
(* Properties of the etcd registry adapter.                                *)

\* the cache m of the adapter has an entry for the key ck in the domain d
CacheHas(m, d, ck) == d \in DOMAIN m /\ ck \in DOMAIN m[d]

\* the step is the return of a call of the adapter named n
EtcdCall(n) == eCalls' = eCalls + 1 /\ eOp'.name = n

\* the adapter holds the hash of the node and a live lease for it
KnownUnchanged(name, node, d) ==
    /\ CacheHas(register, d, name \o node.Id)
    /\ register[d][name \o node.Id] = NodeHash(node)
    /\ CacheHas(leases, d, name \o node.Id)
    /\ leases[d][name \o node.Id] \in leaseLive

\* C11: a Register of nodes whose hash and live lease the adapter has cached
\* makes one KeepAliveOnce per node, no Grant and no Put, and leaves the store,
\* the leases and both caches as they are.
C11_UnchangedRenews ==
    [][(/\ EtcdCall("Register")
        /\ eOp'.service.Nodes # <<>>
        /\ \A i \in 1..Len(eOp'.service.Nodes) :
              KnownUnchanged(eOp'.service.Name, eOp'.service.Nodes[i],
                             DomainOf(eOp'.domain)))
       => /\ eRet' = [err |-> Nil, grants |-> 0, puts |-> 0,
                      renews |-> Len(eOp'.service.Nodes), deletes |-> 0]
          /\ UNCHANGED <<store, leaseLive, leaseMade, register, leases>>]_vars

\* a node was registered twice with a TTL: the second call renewed the lease
\* of the key and wrote nothing
C11_Witness ==
    /\ eCalls = 2 /\ eOp.name = "Register" /\ eOp.ttl = 1
    /\ eOp.service.Nodes = <<Node("n1", "x")>>
    /\ eRet = [err |-> Nil, grants |-> 0, puts |-> 0, renews |-> 1,
               deletes |-> 0]
    /\ nodePath(DomainOf(eOp.domain), "a/b", "n1") \in DOMAIN store
    /\ store[nodePath(DomainOf(eOp.domain), "a/b", "n1")].Lease = 1
    /\ leaseLive = {1} /\ leaseMade = 1

\* the store holds the key of the node under a lease, with the content of node
StoredUnderLease(name, node, d) ==
    /\ nodePath(d, name, node.Id) \in DOMAIN store
    /\ store[nodePath(d, name, node.Id)].Lease \in leaseLive
    /\ decode(store[nodePath(d, name, node.Id)].Value) # <<>>
    /\ decode(store[nodePath(d, name, node.Id)].Value)[1].Nodes = <<node>>

\* C12: a Register of one node by an adapter that has no lease cached for it,
\* while the store holds the node's key under a live lease with the same node
\* content, puts that lease and the hash into the caches, makes one
\* KeepAliveOnce, no Grant and no Put, and leaves the key under that lease.
C12_LeaseAdoption ==
    [][(/\ EtcdCall("Register")
        /\ Len(eOp'.service.Nodes) = 1
        /\ ~CacheHas(leases, DomainOf(eOp'.domain),
                     eOp'.service.Name \o eOp'.service.Nodes[1].Id)
        /\ StoredUnderLease(eOp'.service.Name, eOp'.service.Nodes[1],
                            DomainOf(eOp'.domain)))
       => /\ eRet' = [err |-> Nil, grants |-> 0, puts |-> 0, renews |-> 1,
                      deletes |-> 0]
          /\ UNCHANGED <<store, leaseLive, leaseMade>>
          /\ CacheHas(leases', DomainOf(eOp'.domain),
                      eOp'.service.Name \o eOp'.service.Nodes[1].Id)
          /\ leases'[DomainOf(eOp'.domain)]
                    [eOp'.service.Name \o eOp'.service.Nodes[1].Id]
                = store[nodePath(DomainOf(eOp'.domain), eOp'.service.Name,
                                 eOp'.service.Nodes[1].Id)].Lease
          /\ CacheHas(register', DomainOf(eOp'.domain),
                      eOp'.service.Name \o eOp'.service.Nodes[1].Id)
          /\ register'[DomainOf(eOp'.domain)]
                      [eOp'.service.Name \o eOp'.service.Nodes[1].Id]
                = NodeHash(eOp'.service.Nodes[1])]_vars

\* two nodes were registered under leases 1 and 2, the adapter restarted, and
\* the Register of the first node adopted lease 1 without writing: the new
\* adapter knows the first node only
C12_Witness ==
    /\ eCalls = 3 /\ eOp.name = "Register" /\ eOp.domain = ""
    /\ eOp.service.Nodes = <<Node("n1", "x")>>
    /\ eRet = [err |-> Nil, grants |-> 0, puts |-> 0, renews |-> 1,
               deletes |-> 0]
    /\ leaseLive = {1, 2}
    /\ DOMAIN store = {nodePath("inf", "a/b", "n1"), nodePath("inf", "a/b", "n2")}
    /\ store[nodePath("inf", "a/b", "n1")].Lease = 1
    /\ leases = [inf |-> [x \in {"a/bn1"} |-> 1]]
    /\ register = [inf |-> [x \in {"a/bn1"} |-> NodeHash(Node("n1", "x"))]]

\* the keys of the nodes a call lists
ListedKeys(o) ==
    {nodePath(DomainOf(o.domain), o.service.Name, o.service.Nodes[i].Id) :
        i \in 1..Len(o.service.Nodes)}

\* C13: a Deregister of a service with at least one node returns nil, leaves
\* no key of a listed node in the store, whether the key was there or not, and
\* leaves every other key with its value and lease.
C13_DeregisterRemoves ==
    [][(EtcdCall("Deregister") /\ eOp'.service.Nodes # <<>>)
       => /\ eRet'.err = Nil
          /\ DOMAIN store' = DOMAIN store \ ListedKeys(eOp')
          /\ \A k \in DOMAIN store' : store'[k] = store[k]]_vars

\* a node was registered in two domains; a Deregister listing it and a node
\* that has no key has removed its key in the one domain and left the other
C13_Witness ==
    /\ eCalls = 3 /\ eOp.name = "Deregister" /\ eOp.domain = ""
    /\ Len(eOp.service.Nodes) = 2
    /\ eRet.err = Nil /\ eRet.deletes = 2
    /\ DOMAIN store = {nodePath("d2", "a/b", "n1")}
    /\ CacheHas(register, "inf", "a/bn1")
    /\ ~CacheHas(register, "inf", "a/bn2")

\* C14: when a Deregister returns, the hash cache and the lease cache of the
\* adapter hold no entry for a listed node in the domain of the call.
C14_DeregisterClearsCaches ==
    [][(EtcdCall("Deregister") /\ eOp'.service.Nodes # <<>>)
       => \A i \in 1..Len(eOp'.service.Nodes) :
             /\ ~CacheHas(register', DomainOf(eOp'.domain),
                          eOp'.service.Name \o eOp'.service.Nodes[i].Id)
             /\ ~CacheHas(leases', DomainOf(eOp'.domain),
                          eOp'.service.Name \o eOp'.service.Nodes[i].Id)]_vars

----------------------------------------------------------------------------
(* Properties of GetService and ListServices.                              *)

\* the domains a query with the Domain option dom reads
ScopeOf(dom) ==
    IF DomainOf(dom) = WildcardDomain THEN Domains ELSE {DomainOf(dom)}

\* the keys of the store that hold a node of the service name in a domain of
\* the set ds, and the service a key holds
KeysOf(name, ds) ==
    {k \in DOMAIN store :
        /\ Len(k) = 4 /\ k[1] = prefix /\ k[2] \in ds
        /\ k[3] = serializeServiceName(name)}
Held(k) == decode(store[k].Value)[1]

\* the nodes of a service, each with the domain of the service
NodesOf(s) == {<<s.Metadata.domain, s.Nodes[i]>> : i \in 1..Len(s.Nodes)}

\* C15: the nodes across the services a GetService returns are exactly the
\* nodes of all the keys of the service in the domain asked for.
C15_GetServiceAllNodes ==
    (eOp.name = "GetService" /\ eRet.err = Nil)
        => UNION {NodesOf(s) : s \in eRet.services}
             = UNION {NodesOf(Held(k)) :
                         k \in KeysOf(eOp.service, ScopeOf(eOp.domain))}

\* C16: a GetService with the wildcard domain returns, for every domain and
\* version the service is stored with, a service of that version that carries
\* the metadata of that domain and nodes of that domain only.
C16_WildcardPerDomain ==
    (eOp.name = "GetService" /\ eOp.domain = WildcardDomain /\ eRet.err = Nil)
        => \A k \in KeysOf(eOp.service, Domains) :
              \E s \in eRet.services :
                  /\ s.Version = Held(k).Version
                  /\ s.Metadata.domain = k[2]
                  /\ NodesOf(s) \subseteq
                        UNION {NodesOf(Held(j)) :
                                  j \in KeysOf(eOp.service, {k[2]})}

\* the (domain, service, version) triples of the store in the domains ds, and
\* the nodes stored for a triple
Triples(ds) ==
    {<<k[2], Held(k).Name, Held(k).Version>> :
        k \in UNION {KeysOf(name, ds) : name \in ServiceNames}}
TripleNodes(t) ==
    UNION {NodesOf(Held(k)) :
              k \in {j \in KeysOf(t[2], {t[1]}) : Held(j).Version = t[3]}}
TripleOf(s) == <<s.Metadata.domain, s.Name, s.Version>>

\* C17: a ListServices returns no error and a list ordered by name that has
\* exactly one entry for every (domain, service, version) of the store in the
\* domain asked for, the entry carrying all the nodes of its triple; on an
\* empty store the list is empty.
C17_ListPerTriple ==
    eOp.name = "ListServices"
        => /\ eRet.err = Nil
           /\ \A i, j \in 1..Len(eRet.services) :
                 /\ i < j => StrRank[eRet.services[i].Name]
                                <= StrRank[eRet.services[j].Name]
                 /\ TripleOf(eRet.services[i]) = TripleOf(eRet.services[j])
                       => i = j
           /\ {TripleOf(eRet.services[i]) : i \in 1..Len(eRet.services)}
                 = Triples(ScopeOf(eOp.domain))
           /\ \A i \in 1..Len(eRet.services) :
                 NodesOf(eRet.services[i]) = TripleNodes(TripleOf(eRet.services[i]))

----------------------------------------------------------------------------
(* Properties of the etcd watcher.                                         *)

\* the results of all the events of the responses sent, in order; an error
\* response or a cancelled one carries none
RECURSIVE allResults(_)
allResults(resps) ==
    IF resps = <<>> THEN <<>>
    ELSE (IF Head(resps).Err # Nil \/ Head(resps).Canceled THEN <<>>
          ELSE SelectSeq([i \in 1..Len(Head(resps).Events) |->
                             eventResult(Head(resps).Events[i])],
                         LAMBDA r : r # <<>>))
         \o allResults(Tail(resps))

IsPrefix(p, q) ==
    /\ Len(p) <= Len(q)
    /\ \A i \in 1..Len(p) : p[i] = q[i]

\* C18: the results the successive calls of Next have returned are, in order,
\* the results of the events of the responses sent, none left out: a response
\* with k decodable events gives k results before any result of a later one.
C18_EveryResultEmitted ==
    IsPrefix([i \in 1..Len(wOut) |-> <<wOut[i]>>], allResults(wSent))

----------------------------------------------------------------------------
(* Properties of the registry routes of start.                             *)

\* the local route of a node of the service name in the domain d
NodeRoute(name, node, d) ==
    Route(name, node.Address, "", d, options.Id, DefaultLink,
          DefaultLocalMetric)

\* C19: once a start with Prewarm set has returned no error, the table holds
\* the local route of every node of every service the registry holds, in any
\* domain.
C19_PrewarmComplete ==
    (op["c1"] = "start" /\ ret["c1"].err = Nil /\ options.Prewarm)
        => \A k \in DOMAIN store :
              \A i \in 1..Len(Held(k).Nodes) :
                  NodeRoute(Held(k).Name, Held(k).Nodes[i], k[2]) \in table

----------------------------------------------------------------------------
(* Properties of manageRoutes.                                             *)

\* the routes of the nodes of the service manageRoutes was called with
ManagedRoutes ==
    {Route(mArgs.service.Name, mArgs.service.Nodes[i], "", mArgs.network,
           options.Id, DefaultLink, DefaultLocalMetric) :
        i \in 1..Len(mArgs.service.Nodes)}

\* C20: a create returns no error and leaves the table as it was plus the
\* routes of the nodes that had none (a node whose route exists changes
\* nothing and the nodes after it are still added); a delete returns no error
\* and leaves the table as it was less the routes of the nodes (a node without
\* a route changes nothing and the nodes after it are still removed); an
\* unknown action returns an error at the first node and changes nothing.
C20_BenignErrorsTolerated ==
    /\ mArgs.action \in {"create", "Create"}
          => mErr = Nil /\ table = mBefore \cup ManagedRoutes
    /\ mArgs.action \in {"delete", "DELETE"}
          => mErr = Nil /\ table = mBefore \ ManagedRoutes
    /\ (mArgs.action = "bogus" /\ mArgs.service.Nodes # <<>>)
          => mErr = "unknown action" /\ table = mBefore

\* a create for two nodes, the first with its route in the table already and
\* the second without: the call returned no error and the second was added
C20_Witness ==
    /\ mArgs.action = "create"
    /\ mArgs.service.Nodes = <<"x", "y">>
    /\ Route(mArgs.service.Name, "x", "", mArgs.network, options.Id,
             DefaultLink, DefaultLocalMetric) \in mBefore
    /\ Route(mArgs.service.Name, "y", "", mArgs.network, options.Id,
             DefaultLink, DefaultLocalMetric) \notin mBefore
    /\ mErr = Nil
    /\ Cardinality(table) = Cardinality(mBefore) + 1

\* C21: a Watch with the wildcard domain and a Service option returns an
\* error and no watcher.
C21_WildcardServiceRejected ==
    (wWatch.called /\ wWatch.domain = WildcardDomain /\ wWatch.service # "")
        => wWatch.err # Nil /\ ~wWatch.made

C21_Witness ==
    /\ wWatch.called /\ wWatch.domain = WildcardDomain /\ wWatch.service = "a"
    /\ wWatch.err = "Cannot watch a service accross domains"
    /\ ~wWatch.made /\ wSent = <<>>

----------------------------------------------------------------------------
(* Properties of the registry-watch supervisor.                            *)

\* C22: every registry watcher, the one start opens and every one the
\* supervisor reopens, is opened with the wildcard-domain option.
C22_AlwaysWildcard ==
    \A w \in WatcherIds :
        (w[1] = "reg" /\ watchers[w].open)
            => watchers[w].domain = WildcardDomain

----------------------------------------------------------------------------
(* Properties of the Announce advert.                                      *)

\* the publishAdvert goroutines that carry an Announce advert
Announcers == {p \in PubIds : pubAdv[p].Type = "announce"}

\* the step in which the call of c runs lines 561-601 of Advertise
AdvertiseReturns(c) == pc[c] = "adv_sub" /\ pc'[c] = "idle"

\* the Announce advert of the table as it is
AnnounceNow ==
    [Type |-> "announce",
     Events |-> {Event("create", 0, route) :
                    route \in TableQuery(table, options.Advertise)}]

\* what C23 says is published: the Advertise call that finds no event channel
\* starts one publishAdvert with the Announce advert of the table query under
\* the configured strategy; an Advertise call that finds the event channel
\* starts none.
C23_AnnounceOnce ==
    [][\A c \in Callers :
          AdvertiseReturns(c)
              => IF eventChan = 0
                 THEN \E p \in PubIds :
                         /\ pubPc[p] = "none" /\ pubPc'[p] = "rlock"
                         /\ pubAdv'[p] = AnnounceNow
                         /\ \A q \in PubIds \ {p} :
                               pubPc'[q] = pubPc[q] /\ pubAdv'[q] = pubAdv[q]
                 ELSE pubPc' = pubPc /\ pubAdv' = pubAdv]_vars

\* an Announce advert is in the buffer of the channel ch
AnnounceIn(ch) ==
    \E i \in 1..Len(chanBuf[ch]) : chanBuf[ch][i].Type = "announce"

\* the delivery C23 states: the Announce advert of the first Advertise call reaches
\* the channel that call returned, the first channel made, unless the router
\* is closed first.
AnnouncePending(ch) ==
    \E p \in Announcers :
        \/ pubPc[p] = "rlock"
        \/ \E i \in 1..Len(pubTodo[p]) : pubTodo[p][i] = ch

C23_AnnounceDelivered ==
    AnnouncePending(1) ~> (AnnounceIn(1) \/ exit \in exitClosed)

C24_AnnounceOnlyFirst ==
    \A ch \in ChanIds \ {1} : ~AnnounceIn(ch)

----------------------------------------------------------------------------
(* Properties of the RouteUpdate adverts of the advertiseEvents loop.      *)

\* the adverts the ticks have published so far
Published == {cPubs[i] : i \in 1..Len(cPubs)}

\* the events of an advert are of different route hashes
OnePerHash(events) ==
    \A e1, e2 \in events : Hash(e1.Route) = Hash(e2.Route) => e1 = e2

\* this step is the ticker case of the loop
TickStep == cTicked' /\ cCount' = cCount /\ cSince' = <<>> /\ cPrev' = cSince

\* every published advert is a RouteUpdate with at least one event and at
\* most one event per route hash
C25_AdvertsWellFormed ==
    \A a \in Published :
        a.Type = "update" /\ a.Events # {} /\ OnePerHash(a.Events)

\* a tick that finds the pending map empty publishes nothing; the events of
\* the advert a tick publishes were pending and are pending no longer
C25_TickFlushes ==
    [][TickStep =>
          /\ adverts[1] = EmptyMap => cPubs' = cPubs
          /\ cPubs' # cPubs =>
                /\ Len(cPubs') = Len(cPubs) + 1
                /\ SubSeq(cPubs', 1, Len(cPubs)) = cPubs
                /\ \A e \in cPubs'[Len(cPubs')].Events :
                      /\ Hash(e.Route) \in DOMAIN adverts[1]
                      /\ adverts[1][Hash(e.Route)] = e
                      /\ Hash(e.Route) \notin DOMAIN adverts'[1]]_vars

\* C25: every RouteUpdate advert the coalescer publishes is non-empty and
\* holds at most one event per route hash; a tick with an empty pending map
\* publishes no advert; every event put into an advert is removed from the
\* pending map at that tick.
C25_RouteUpdateAdverts == []C25_AdvertsWellFormed /\ C25_TickFlushes

\* a tick has published an advert with the events of two routes and left the
\* pending map empty, and a later tick on the empty map has published nothing
C25_Witness ==
    /\ cTicked /\ cPrev = <<>> /\ adverts[1] = EmptyMap
    /\ Len(cPubs) = 1
    /\ Cardinality(cPubs[1].Events) = 2

\* the events in the pending map and in the adverts published so far
StoredOrCarried ==
    {adverts[1][h] : h \in DOMAIN adverts[1]}
        \cup UNION {a.Events : a \in Published}

\* C26: under the strategy AdvertiseNone no event is stored in the pending
\* map and no RouteUpdate advert is published; under AdvertiseLocal no event
\* of a route whose Link is not "local" is stored in the pending map or
\* carried by a RouteUpdate advert.
C26_StrategyFilter ==
    /\ options.Advertise = "none" => adverts[1] = EmptyMap /\ cPubs = <<>>
    /\ options.Advertise = "local" =>
          \A e \in StoredOrCarried : e.Route.Link = "local"

\* under AdvertiseLocal the loop has received an event of the local route and
\* one of the peer's route, and the tick has published the first alone
C26_Witness ==
    /\ options.Advertise = "local" /\ cTicked
    /\ \E i, j \in 1..Len(cPrev) :
          cPrev[i].Route = LocalRoute /\ cPrev[j].Route = PeerRoute
    /\ Len(cPubs) = 1
    /\ \A e \in cPubs[1].Events : e.Route = LocalRoute

----------------------------------------------------------------------------
(* Properties of the order in which Process applies events.                *)

\* sorted is evs ordered by Timestamp with the events of equal Timestamp in
\* the order they have in evs
StablySorted(evs, sorted) ==
    \E p \in SortOrders(evs) :
        /\ sorted = [i \in 1..Len(evs) |-> evs[p[i]]]
        /\ \A i, j \in 1..Len(evs) :
              (i < j /\ evs[p[i]].Timestamp = evs[p[j]].Timestamp) => p[i] < p[j]

\* C27: Process applies the events of an advert in non-decreasing Timestamp
\* order, the events of equal Timestamp in the order they have in the advert
\* (stable sort), on a copy of the advert's Events.
C27_StableTimestampOrder ==
    /\ \A i, j \in 1..Len(pSorted) :
          i < j => pSorted[i].Timestamp <= pSorted[j].Timestamp
    /\ StablySorted(pAdvert, pSorted)
    /\ pErr = Nil => pApplied = PeerEvents(pSorted)

----------------------------------------------------------------------------
(* Properties of Process on an error of manageRoute.                       *)

\* the peers' events among the first k sorted events
PeersUpTo(k) == PeerEvents(SubSeq(pSorted, 1, k))

\* manageRoute returns an error for the k-th sorted event, on the table the
\* peers' events before it have left
FailsAt(k) ==
    /\ pSorted[k].Route.Router # options.Id
    /\ manageRoute(ApplyAll(pBefore, PeersUpTo(k - 1)),
                   pSorted[k].Route, pSorted[k].Type).err # Nil

FirstFailure(k) == FailsAt(k) /\ \A j \in 1..(k - 1) : ~FailsAt(j)

\* Process has returned an error exactly when manageRoute fails for some
\* event; manageRoute was then called for the peers' events up to the first
\* failing one and for none after it, and the table holds what the events
\* before it have made of it
C28_AbortState ==
    /\ pErr # Nil <=> \E k \in 1..Len(pSorted) : FailsAt(k)
    /\ \A k \in 1..Len(pSorted) :
          FirstFailure(k) =>
              /\ pErr = "failed applying action"
              /\ pApplied = PeersUpTo(k)
              /\ table = ApplyAll(pBefore, PeersUpTo(k - 1))

\* a call of Process that returns an error leaves the router running and
\* its subscribers and their channels as they are
C28_StaysRunning ==
    [][(pErr' # Nil /\ <<pAdvert, pSorted, pErr>>' # <<pAdvert, pSorted, pErr>>)
          => /\ running /\ running'
             /\ UNCHANGED <<subscribers, chanBuf, chanClosed, exit, exitClosed,
                            eventChan>>]_vars

\* C28: Process aborts on the first error of manageRoute that is not
\* tolerated: the error is returned, the events sorted after the failing one
\* are not applied, the changes of the events before it stay in the table,
\* and the router stays running with its subscribers untouched.
C28_AbortOnFirstError == []C28_AbortState /\ C28_StaysRunning

\* Process was given the Create of a peer's route, an event of unknown type
\* and the Delete of the route, in Timestamp order, on an empty table: it has
\* returned the error with the route in the table
C28_Witness ==
    /\ pBefore = {} /\ table = {PeerRoute} /\ pErr # Nil /\ running
    /\ Len(pSorted) = 3
    /\ pSorted[1] = Event("create", 0, PeerRoute)
    /\ pSorted[2].Type = UnknownType /\ pSorted[2].Route = PeerRoute
    /\ pSorted[3] = Event("delete", 1, PeerRoute)

----------------------------------------------------------------------------
(* Properties of Register on a node whose lease the adapter knows.         *)

\* the lease Register finds for the node: the cached one, or else the lease
\* of the node's key in the store; 0 if there is none
KnownLease(name, node, d) ==
    IF CacheHas(leases, d, name \o node.Id) THEN leases[d][name \o node.Id]
    ELSE IF nodePath(d, name, node.Id) \in DOMAIN store
    THEN store[nodePath(d, name, node.Id)].Lease
    ELSE 0

\* the call that returns is a Register of one node with the TTL ttl
RegisterOne(ttl) ==
    /\ EtcdCall("Register")
    /\ Len(eOp'.service.Nodes) = 1
    /\ eOp'.ttl = ttl

\* C29: a Register with a TTL of a node whose cached or adopted lease the
\* store no longer has grants a fresh lease, writes the node's key under it
\* and caches the new lease id and the hash, whether or not the content of
\* the node has changed.
C29_ExpiredLeaseRepaired ==
    [][LET name == eOp'.service.Name
           node == eOp'.service.Nodes[1]
           d == DomainOf(eOp'.domain)
       IN  (/\ RegisterOne(1)
            /\ KnownLease(name, node, d) > 0
            /\ KnownLease(name, node, d) \notin leaseLive)
           => /\ eRet' = [err |-> Nil, grants |-> 1, puts |-> 1, renews |-> 1,
                          deletes |-> 0]
              /\ leaseMade' = leaseMade + 1
              /\ leaseLive' = leaseLive \cup {leaseMade'}
              /\ nodePath(d, name, node.Id) \in DOMAIN store'
              /\ store'[nodePath(d, name, node.Id)] =
                    [Value |-> encode(EtcdService(name, eOp'.service.Version,
                                                  d, <<node>>)),
                     Lease |-> leaseMade']
              /\ CacheHas(leases', d, name \o node.Id)
              /\ leases'[d][name \o node.Id] = leaseMade'
              /\ CacheHas(register', d, name \o node.Id)
              /\ register'[d][name \o node.Id] = NodeHash(node)]_vars

\* a node was registered under lease 1, the lease expired and took the key
\* with it, and the next Register of the node, after one KeepAliveOnce, has
\* written the key under the fresh lease 2 and cached it
C29_Witness ==
    /\ eCalls = 3 /\ eOp.name = "Register" /\ eOp.ttl = 1 /\ eOp.domain = ""
    /\ eOp.service.Nodes = <<Node("n1", "x")>>
    /\ eRet = [err |-> Nil, grants |-> 1, puts |-> 1, renews |-> 1,
               deletes |-> 0]
    /\ leaseMade = 2 /\ leaseLive = {2}
    /\ DOMAIN store = {nodePath("inf", "a/b", "n1")}
    /\ store[nodePath("inf", "a/b", "n1")].Lease = 2
    /\ leases = [inf |-> [x \in {"a/bn1"} |-> 2]]
    /\ register = [inf |-> [x \in {"a/bn1"} |-> NodeHash(Node("n1", "x"))]]

\* C30: a Register of a node whose content has changed while its cached
\* lease is alive replaces the value at the node's key and leaves the key
\* under the same lease: no lease is granted.
C30_SameLeaseOnChange ==
    [][LET name == eOp'.service.Name
           node == eOp'.service.Nodes[1]
           d == DomainOf(eOp'.domain)
       IN  (/\ RegisterOne(1)
            /\ CacheHas(leases, d, name \o node.Id)
            /\ leases[d][name \o node.Id] \in leaseLive
            /\ CacheHas(register, d, name \o node.Id)
            /\ register[d][name \o node.Id] # NodeHash(node)
            /\ nodePath(d, name, node.Id) \in DOMAIN store
            /\ store[nodePath(d, name, node.Id)].Lease = leases[d][name \o node.Id])
           => /\ eRet'.err = Nil /\ eRet'.grants = 0
              /\ leaseMade' = leaseMade
              /\ store'[nodePath(d, name, node.Id)] =
                    [Value |-> encode(EtcdService(name, eOp'.service.Version,
                                                  d, <<node>>)),
                     Lease |-> leases[d][name \o node.Id]]]_vars

----------------------------------------------------------------------------
(* Properties of GetService with the wildcard domain.                      *)

\* C31: a GetService with the wildcard domain returns only services held by
\* keys whose service-name segment is the serialized name asked for, never a
\* service of another name whose key has the name as prefix or domain
\* segment, and returns ErrNotFound when the store holds no key of the
\* service.
C31_WildcardNameSegment ==
    (eOp.name = "GetService" /\ eOp.domain = WildcardDomain) =>
        /\ eRet.err = Nil =>
              \A s \in eRet.services :
                  /\ serializeServiceName(s.Name) = serializeServiceName(eOp.service)
                  /\ NodesOf(s) \subseteq
                        UNION {NodesOf(Held(k)) : k \in KeysOf(eOp.service, Domains)}
        /\ KeysOf(eOp.service, Domains) = {} => eRet.err = "ErrNotFound"

----------------------------------------------------------------------------
(* Properties of publishAdvert against Close.                              *)

\* the channels a publishAdvert that holds the read lock has still to send to
SendTargets(p) == {pubTodo[p][i] : i \in 1..Len(pubTodo[p])}

\* no publishAdvert is about to send on a closed channel, and no closed
\* channel is among the subscribers a later publishAdvert would range over
C32_OpenTargets ==
    /\ \A p \in PubIds : pubPc[p] = "send" => SendTargets(p) \cap chanClosed = {}
    /\ subscribers \cap chanClosed = {}

\* channels are closed only while no publishAdvert holds the read lock, and
\* all subscribers are removed in the same step
C32_ClosedUnderLock ==
    [][chanClosed' # chanClosed => subReaders = {} /\ subscribers' = {}]_vars

\* C32: no advert is sent on a closed subscriber channel: Close closes and
\* removes the subscriber channels only while no publishAdvert holds the
\* subscriber read lock, and a publishAdvert that starts after Close finds no
\* subscriber.
C32_NoSendOnClosed == []C32_OpenTargets /\ C32_ClosedUnderLock

\* Close has closed the exit channel and waits for r.sub.Lock while a
\* publishAdvert holds the read lock in the middle of its sends
C32_Witness ==
    /\ \E c \in Callers : op[c] = "Close" /\ pc[c] = "close_subs"
    /\ exit \in exitClosed
    /\ \E p \in PubIds : p \in subReaders /\ pubPc[p] = "send"
    /\ chanClosed = {}

----------------------------------------------------------------------------
(* Properties of the send of watchTable against Close.                     *)

\* C33: no table event is sent on the event channel after Close has closed
\* it: the send of watchTable never executes on a closed event channel.
C33_NoSendOnClosedEvent ==
    [][\A k \in DOMAIN tsPc : ~TsSendClosed(k)]_vars

----------------------------------------------------------------------------
(* Properties of Register after Deregister.                                *)

\* C34: a Register with a TTL that returns nil makes the node present: when
\* the adapter has registered the node before with the same content and the
\* lease is alive, as in Register, Deregister, Register of one node with no
\* other node in the store, the node's key is in the store afterwards and
\* GetService returns the node.
C34_RegisterMakesPresent ==
    [][LET name == eOp'.service.Name
           node == eOp'.service.Nodes[1]
           d == DomainOf(eOp'.domain)
       IN  (/\ RegisterOne(1) /\ eRet'.err = Nil
            /\ KnownUnchanged(name, node, d)
            /\ DOMAIN store \subseteq {nodePath(d, name, node.Id)})
           => /\ nodePath(d, name, node.Id) \in DOMAIN store'
              /\ \E s \in GetService(store', name, eOp'.domain).services :
                    \E i \in 1..Len(s.Nodes) : s.Nodes[i] = node]_vars

----------------------------------------------------------------------------
(* Properties of a registry watcher of one domain.                         *)

\* C35: a watcher opened for one domain that is not the wildcard, without a
\* service name, returns from Next only results of keys of that domain.
C35_OnlyOwnDomain ==
    (wWatch.made /\ DomainOf(wWatch.domain) # WildcardDomain
                /\ wWatch.service = "")
        => \A i \in 1..Len(wOut) :
              wOut[i].Service.Metadata.domain = DomainOf(wWatch.domain)

----------------------------------------------------------------------------
(* Properties of the lease cache of the adapter.                           *)

\* C36: between calls, when the adapter caches a lease for a node and the
\* node's key is in the store, the key is attached to the cached lease.
C36_LeaseCacheConsistent ==
    \A d \in Domains, name \in ServiceNames, id \in NodeIds :
        (/\ CacheHas(leases, d, name \o id)
         /\ nodePath(d, name, id) \in DOMAIN store)
        => store[nodePath(d, name, id)].Lease = leases[d][name \o id]

----------------------------------------------------------------------------
(* HashSpec: Route.Hash (router/route.go, lines 762-768) applied to pairs  *)
(* of routes.                                                              *)

\* the routes hashed: field values of which one is the start of another
HashRoutes ==
    {[Route(service, address, "", "inf", SelfId, DefaultLink, metric)
         EXCEPT !.Version = version] :
        service \in {"a", "ab"}, version \in {"", "b"},
        address \in {"", "x"}, metric \in {DefaultLocalMetric, 2}}

\* Hash is called on two routes
HashPair ==
    /\ \E r1, r2 \in HashRoutes :
          hashed' = <<[Route |-> r1, Sum |-> Hash(r1)],
                      [Route |-> r2, Sum |-> Hash(r2)]>>
    /\ UNCHANGED <<lifecycleVars, options, table, adverts, harnessC, harnessP,
                   harnessE, harnessW, harnessM>>

HashSpec == EtcdInit /\ [][HashPair]_vars

\* the fields of a route that make its identity
Identity(r) ==
    <<r.Service, r.Version, r.Address, r.Gateway, r.Network, r.Router, r.Link>>

\* C37: two routes that differ in one of Service, Version, Address, Gateway,
\* Network, Router, Link are hashed over different byte strings, and two
\* routes that differ in Metric only are hashed over the same byte string.
C37_HashInjective ==
    hashed # <<>> =>
        (Identity(hashed[1].Route) = Identity(hashed[2].Route)
            <=> hashed[1].Sum = hashed[2].Sum)

----------------------------------------------------------------------------
(* RestartSpec: as Spec, with callers that also call Init, on routers with *)
(* and without a gateway.                                                  *)

\* the number of calls of Close, Advertise and Init in a behaviour of
\* RestartSpec
MaxRestartCalls == 2

RestartCallerNext ==
    \E c \in Callers :
        \/ calls < MaxRestartCalls /\ CallClose(c)
        \/ calls < MaxRestartCalls /\ CallAdvertise(c)
        \/ calls < MaxRestartCalls /\ CallInit(c)
        \/ CloseLock(c)
        \/ CloseFinish(c)
        \/ AdvertiseLock(c)
        \/ AdvertiseBody(c)
        \/ InitStart(c)

RestartNext ==
    \/ RestartCallerNext
    \/ PubNext
    \/ CoNext
    \/ TsNext

RestartSpec == Init /\ [][RestartNext]_vars

----------------------------------------------------------------------------
(* Properties of the router between calls.                                 *)

\* no call of Close, Init or Advertise is executing
NoCall == (\A c \in Callers : pc[c] = "idle") /\ mu = "none"

\* C38: whenever no router method is executing, a router that is not running
\* has no subscriber and a nil event channel, and a router that is running
\* has an exit channel that is open.
C38_StoppedQuiescent ==
    NoCall =>
        /\ ~running => subscribers = {} /\ eventChan = 0
        /\ running => exit # 0 /\ exit \notin exitClosed

\* an Init has restarted a router that a Close had stopped while it had a
\* subscriber: it runs on a new exit channel and no call is executing
C38_Witness ==
    /\ NoCall /\ running /\ exit = 2 /\ exitClosed = {1}
    /\ chanClosed # {} /\ subscribers = {} /\ eventChan = 0

----------------------------------------------------------------------------
(* PrewarmStartSpec: as RegistrySpec, on routers that may prewarm: the     *)
(* listing of the registry in start may fail, at construction and in Init. *)

PrewarmStartInit ==
    /\ \E gw \in GatewayChoices, prewarm \in BOOLEAN, watchOk \in BOOLEAN :
          LET opts == [Id |-> SelfId, Gateway |-> gw, Advertise |-> "all",
                       Prewarm |-> prewarm]
          IN  \E listOk \in ListOutcomes(opts) :
                  Constructed(opts, listOk, watchOk)
    /\ HarnessIdle

PrewarmStartSpec == PrewarmStartInit /\ [][RegistryNext]_vars

\* C39: Close, and Init which begins with Close, returns (with a nil error)
\* and never panics, whatever state the router is in, a router whose start
\* failed at construction before it made the exit channel included: no call
\* of Close or Init ends in a runtime panic.
C39_CloseNeverPanics ==
    /\ ~panicked
    /\ \A c \in Callers : pc[c] # "panic"

====
